---------------------------- MODULE Spec2Model ----------------------------
(***************************************************************************)
(* Coverage engine of brownie: analyze_coverage and merge_coverage         *)
(* (brownie/test/coverage.py) over the pcMap / coverageMap that            *)
(* brownie/project/compiler.py builds.                                     *)
(*                                                                         *)
(* Conventions                                                             *)
(*   - a percentage is an integer number of 1/PctScale (0.75 is 7500);     *)
(*   - coverage unit indices are 0-based as in the code, so unit idx of a  *)
(*     function is maps[idx + 1] of the TLA+ sequence;                     *)
(*   - a Python exception that leaves a function is the value of `exc`     *)
(*     ("KeyError", "StopIteration", "IndexError"), "none" otherwise;      *)
(*   - the dict nesting contract -> source file -> function is modelled    *)
(*     with one source file per contract, so a function key stands for     *)
(*     the pair (source, fn_name);                                         *)
(*   - the lists that JSON stores for 'tx', 'true', 'false' are modelled   *)
(*     by their contents (sets).                                           *)
(***************************************************************************)
EXTENDS Integers, Sequences, FiniteSets, TLC

VARIABLES
    \* ---- merge_coverage
    coverage_files,   \* the argument: the contents of each coverage file
    merged_eval,      \* the value merge_coverage returned
    mpc,              \* "call" | "returned" | "raised"
    mexc,             \* the exception merge_coverage raised, "none" otherwise
    \* ---- analyze_coverage
    coverage_eval,    \* contract -> function -> [tx, true, false] (with pct once evaluated)
    tx_eval,          \* contract -> function -> set of unit indices, of the current tx
    trace,            \* tx.trace, as far as the loop has read it
    i,                \* index (0-based, as in the code) of the sample the loop is at
    txn,              \* number of transactions of history taken so far
    apc,              \* "history" | "trace" | "returned" | "raised"
    exc,              \* the exception analyze_coverage raised, "none" otherwise
    \* ---- _generate_pcMap, for one contract with deployed bytecode
    build_opcodes,    \* data['opcodes'] split on " " (a final "" for the trailing space)
    source_map_len,   \* number of entries of data['deployedSourceMap']
    opcodes,          \* the tokens not yet popped, next one first
    cur_pc,           \* the local pc
    last,             \* the local last: the latest resolved source-map entry
    raw_value,        \* the source-map entry read last (value), as written in the map
    builtPcMap,       \* the local pcMap: pc -> entry
    bstage,           \* "trim" | "first" | "loop" | "built" | "raised"
    bexc,             \* the exception _generate_pcMap raised, "none" otherwise
    \* ---- _isolate_lines, for one build with one source file
    compiled_pcMap,   \* compiled['pcMap']: pc -> entry
    source_text,      \* the text of the source file, a sequence of characters
    line_map,         \* line_map[path]: the list of coverage units
    lstage,           \* "jumpis" | "opcodes" | "merge" | "returned" | "mapped"
    \* ---- _generate_coverageMap, for the same build
    build_coverageMap,   \* build['coverageMap'][path]: function -> list of units
    pc_coverageIndex,    \* pc -> build['pcMap'][pc]['coverageIndex'], where set
    \* ---- analyze_coverage, as one call on a whole history
    tx_history,       \* history: the traces of its transactions
    analysis,         \* [exc, coverage_eval] once analyze_coverage ended, <<>> before
    \* ---- Chain (brownie/network/state.py) and the test RPC it talks to
    chain,            \* the Chain object: its fields, and who holds _undo_lock
    rpc,              \* the RPC node: block height, snapshots, time offset
    calls,            \* the calls in progress: redo's loop, the undo threads
    \* ---- RequestCachingMiddleware (brownie/network/middlewares/caching.py)
    middleware,       \* the middleware object: block_cache, last_block, lock, ...
    node,             \* the node behind it: the blocks the filter has not reported
    procs,            \* block_filter_loop and the threads inside process_request
    \* ---- format_link_references
    evm,              \* the argument: bytecode object and link references
    linked            \* the string returned, <<>> before

mergeVars == <<coverage_files, merged_eval, mpc, mexc>>
analyzeVars == <<coverage_eval, tx_eval, trace, i, txn, apc, exc>>
builderVars == <<build_opcodes, source_map_len, opcodes, cur_pc, last, raw_value,
                 builtPcMap, bstage, bexc>>
linesVars == <<compiled_pcMap, source_text, line_map, lstage,
               build_coverageMap, pc_coverageIndex>>
historyVars == <<tx_history, analysis>>
chainVars == <<chain, rpc, calls>>
cacheVars == <<middleware, node, procs>>
linkVars == <<evm, linked>>
restVars == <<historyVars, chainVars, cacheVars, linkVars>>
vars == <<coverage_files, merged_eval, mpc, mexc,
          coverage_eval, tx_eval, trace, i, txn, apc, exc,
          build_opcodes, source_map_len, opcodes, cur_pc, last, raw_value,
          builtPcMap, bstage, bexc,
          compiled_pcMap, source_text, line_map, lstage,
          build_coverageMap, pc_coverageIndex,
          tx_history, analysis, chain, rpc, calls, middleware, node, procs,
          evm, linked>>

(***************************************************************************)
(* Bounds                                                                  *)
(***************************************************************************)
MaxFiles == 3      \* coverage files given to one merge_coverage call
MaxTrace == 3      \* samples in one transaction trace
MaxTx == 2         \* transactions in the history

(***************************************************************************)
(* The build under evaluation: one contract K in one source file P.        *)
(*                                                                         *)
(*   pc  op         path  fn    coverageIndex                              *)
(*    0  PUSH1      P     -     -     no AST node contains its range       *)
(*    1  (operand byte of the PUSH1: no pcMap entry)                       *)
(*    2  CALLVALUE  P     K.f   0     anchor of the branch unit of pc 7    *)
(*    3  DUP1       -     -     -     file_id -1                           *)
(*    4  ISZERO     P     K.f   -     range spans a ';' (no unit)          *)
(*    5  JUMPI      P     K.f   -     followed by INVALID: no branch unit  *)
(*    6  INVALID    -     -     -                                          *)
(*    7  JUMPI      P     K.f   -     controls unit 0 of K.f               *)
(*    8  SSTORE     P     K.f   1     statement unit (fall-through of 7)   *)
(*    9  JUMPDEST   P     K.f   2     statement unit (jump target of 7)    *)
(*   10  STOP       P     K.g   0     statement unit of K.g                *)
(***************************************************************************)
PctScale == 10000

NoFn == "<unset>"    \* the 'fn' key is absent from the pcMap entry
NoIdx == -1          \* the 'coverageIndex' key is absent from the pcMap entry
NoJump == 0          \* 'jump': False of a statement unit

PcEntry(op, path, fn, idx) == [op |-> op, path |-> path, fn |-> fn, coverageIndex |-> idx]

pcMap ==
    (0 :> PcEntry("PUSH1", "P", NoFn, NoIdx)) @@
    (2 :> PcEntry("CALLVALUE", "P", "K.f", 0)) @@
    (3 :> PcEntry("DUP1", "", NoFn, NoIdx)) @@
    (4 :> PcEntry("ISZERO", "P", "K.f", NoIdx)) @@
    (5 :> PcEntry("JUMPI", "P", "K.f", NoIdx)) @@
    (6 :> PcEntry("INVALID", "", NoFn, NoIdx)) @@
    (7 :> PcEntry("JUMPI", "P", "K.f", NoIdx)) @@
    (8 :> PcEntry("SSTORE", "P", "K.f", 1)) @@
    (9 :> PcEntry("JUMPDEST", "P", "K.f", 2)) @@
    (10 :> PcEntry("STOP", "P", "K.g", 0))

coverage_map ==
    ("K.f" :> <<[jump |-> 7], [jump |-> NoJump], [jump |-> NoJump]>>) @@
    ("K.g" :> <<[jump |-> NoJump]>>)

(***************************************************************************)
(* Entries of a coverage evaluation.  `sets` tells whether the dict has    *)
(* the keys 'tx', 'true' and 'false': {'pct': 0} and {'pct': 1} have not.  *)
(***************************************************************************)
Entry(pct, t, tr, fa) == [pct |-> pct, sets |-> TRUE, tx |-> t, true |-> tr, false |-> fa]
PctOnly(pct) == [pct |-> pct, sets |-> FALSE, tx |-> {}, true |-> {}, false |-> {}]

Indices(maps) == 0 .. (Len(maps) - 1)
IsJump(maps, idx) == maps[idx + 1].jump # NoJump

\* total of lines 70 and 231: 2 per branch unit, 1 per statement unit
TotalWeight(maps) ==
    Cardinality({k \in Indices(maps) : IsJump(maps, k)}) * 2
    + Cardinality({k \in Indices(maps) : ~IsJump(maps, k)})

\* a hit branch unit counted like a statement (line 76 without the "2 if")
ExecutedWeightFlat(maps, result) ==
    Cardinality({k \in Indices(maps) : k \in result.tx})
    + Cardinality({k \in Indices(maps) : k \notin result.tx /\ IsJump(maps, k)
                                         /\ (k \in result.true \/ k \in result.false)})

\* count of lines 73-81
ExecutedWeight(maps, result) ==
    LET hit == {k \in Indices(maps) : k \in result.tx}
        half == {k \in Indices(maps) : k \notin result.tx /\ IsJump(maps, k)
                                       /\ (k \in result.true \/ k \in result.false)}
    IN  2 * Cardinality({k \in hit : IsJump(maps, k)})
        + Cardinality({k \in hit : ~IsJump(maps, k)})
        + Cardinality(half)

\* round(count / total, 4): to the nearest 1/PctScale, a tie to the even one
Round4(count, total) ==
    LET q == (count * PctScale) \div total
        r == (count * PctScale) % total
    IN  IF 2 * r > total THEN q + 1
        ELSE IF 2 * r = total THEN q + (q % 2)
        ELSE q

\* lines 70-84: the entry of a function that has an entry in coverage_eval
EvaluateEntry(maps, result) ==
    LET pct == Round4(ExecutedWeight(maps, result), TotalWeight(maps))
    IN  IF pct = PctScale THEN PctOnly(PctScale)
        ELSE Entry(pct, result.tx, result.true, result.false)


(***************************************************************************)
(* merge_coverage (coverage.py 88-112)                                     *)
(*                                                                         *)
(* A result is [exc, cov]: cov is the dict contract -> function -> entry   *)
(* and is <<>> when exc is not "none" (nothing is returned).               *)
(***************************************************************************)
Contracts == {"K"}
MergeFns == {"K.f"}

\* the entries analyze_coverage leaves for a function with these units:
\* {'pct': 0} (line 68), or lines 70-84 applied to sets it can build
AnalyzedEntries(maps) ==
    LET jumps == {k \in Indices(maps) : IsJump(maps, k)}
    IN  {PctOnly(0)} \cup
        {EvaluateEntry(maps, [tx |-> t, true |-> tr, false |-> fa]) :
            <<t, tr, fa>> \in {x \in (SUBSET Indices(maps)) \X (SUBSET jumps) \X (SUBSET jumps) :
                                 x[1] \cap x[2] = {} /\ x[1] \cap x[3] = {} /\ x[2] \cap x[3] = {}}}

FnDicts ==
    UNION {{d \in [S -> UNION {AnalyzedEntries(coverage_map[fn]) : fn \in S}] :
               \A fn \in S : d[fn] \in AnalyzedEntries(coverage_map[fn])} : S \in SUBSET MergeFns}

Evaluations == UNION {[C -> FnDicts] : C \in SUBSET Contracts}

\* what merge_coverage finds at one filename: no file, or a file holding 'coverage'
CoverageFiles ==
    {[exists |-> FALSE, coverage |-> <<>>]} \cup {[exists |-> TRUE, coverage |-> e] : e \in Evaluations}

Raise(e) == [exc |-> e, cov |-> <<>>]
Return(cov) == [exc |-> "none", cov |-> cov]

\* lines 100-111 for one function: f is the entry of merged_eval, c the file's
MergeEntry(f, c) ==
    IF c.pct = 0 \/ f = c THEN [exc |-> "none", entry |-> f]                          \* 102-103
    ELSE IF f.pct = PctScale \/ c.pct = PctScale
        THEN [exc |-> "none", entry |-> PctOnly(PctScale)]                            \* 104-106
    ELSE IF ~f.sets \/ ~c.sets THEN [exc |-> "KeyError", entry |-> f]                 \* 107: f['true']
    ELSE LET true1 == f.true \cup c.true                                              \* 107
             false1 == f.false \cup c.false                                           \* 108
             tx1 == f.tx \cup c.tx \cup (true1 \cap false1)                           \* 109
         IN  [exc |-> "none",
              entry |-> Entry(f.pct, tx1, true1 \ tx1, false1 \ tx1)]                 \* 110-111

\* lines 99-111 for one contract present on both sides
MergeContract(fd, cd) ==
    IF \E fn \in DOMAIN cd : fn \notin DOMAIN fd \/ MergeEntry(fd[fn], cd[fn]).exc # "none"
    THEN [exc |-> "KeyError", dict |-> fd]                                            \* 100 or 107
    ELSE [exc |-> "none",
          dict |-> [fn \in DOMAIN fd |->
                       IF fn \in DOMAIN cd THEN MergeEntry(fd[fn], cd[fn]).entry ELSE fd[fn]]]

\* lines 91-111: one iteration of the loop over coverage_files
MergeFile(m, file) ==
    IF ~file.exists THEN Return(m)                                                    \* 92-93
    ELSE LET coverage == file.coverage
             names == DOMAIN m \cup DOMAIN coverage
         IN  IF \E n \in DOMAIN coverage \cap DOMAIN m :
                    MergeContract(m[n], coverage[n]).exc # "none"
             THEN Raise("KeyError")
             ELSE Return([n \in names |->
                     IF n \notin DOMAIN m THEN coverage[n]                            \* 96-98
                     ELSE IF n \notin DOMAIN coverage THEN m[n]
                     ELSE MergeContract(m[n], coverage[n]).dict])

RECURSIVE MergeFrom(_, _, _)
MergeFrom(r, files, k) ==
    IF r.exc # "none" \/ k > Len(files) THEN r
    ELSE MergeFrom(MergeFile(r.cov, files[k]), files, k + 1)

merge_coverage(files) == MergeFrom(Return(<<>>), files, 1)

----------------------------------------------------------------------------
(* The call merge_coverage(coverage_files) *)
MergeCoverage ==
    /\ mpc = "call"
    /\ LET r == merge_coverage(coverage_files)
       IN  /\ merged_eval' = r.cov
           /\ mexc' = r.exc
           /\ mpc' = IF r.exc = "none" THEN "returned" ELSE "raised"
    /\ UNCHANGED coverage_files
    /\ UNCHANGED analyzeVars
    /\ UNCHANGED builderVars
    /\ UNCHANGED linesVars
    /\ UNCHANGED restVars

AnalyzeIdle ==
    /\ coverage_eval = <<>>
    /\ tx_eval = <<>>
    /\ trace = <<>>
    /\ i = 0
    /\ txn = 0
    /\ apc = "returned"
    /\ exc = "none"

MergeIdle ==
    /\ coverage_files = <<>>
    /\ merged_eval = <<>>
    /\ mpc = "returned"
    /\ mexc = "none"

BuilderIdle ==
    /\ build_opcodes = <<>>
    /\ source_map_len = 0
    /\ opcodes = <<>>
    /\ cur_pc = 0
    /\ last = <<>>
    /\ raw_value = <<>>
    /\ builtPcMap = <<>>
    /\ bstage = "built"
    /\ bexc = "none"

LinesIdle ==
    /\ compiled_pcMap = <<>>
    /\ source_text = <<>>
    /\ line_map = <<>>
    /\ lstage = "returned"
    /\ build_coverageMap = <<>>
    /\ pc_coverageIndex = <<>>

HistoryIdle == tx_history = <<>> /\ analysis = <<>>
ChainIdle == chain = <<>> /\ rpc = <<>> /\ calls = <<>>
CacheIdle == middleware = <<>> /\ node = <<>> /\ procs = <<>>
LinkIdle == evm = <<>> /\ linked = <<>>

RestIdle == HistoryIdle /\ ChainIdle /\ CacheIdle /\ LinkIdle

InitMerge ==
    /\ coverage_files \in UNION {[1 .. n -> CoverageFiles] : n \in 1 .. MaxFiles}
    /\ merged_eval = <<>>
    /\ mpc = "call"
    /\ mexc = "none"
    /\ AnalyzeIdle
    /\ BuilderIdle
    /\ LinesIdle
    /\ RestIdle

NextMerge == MergeCoverage

SpecMerge == InitMerge /\ [][NextMerge]_vars


----------------------------------------------------------------------------
(***************************************************************************)
(* Claims about merge_coverage, stated on the call's inputs and result     *)
(***************************************************************************)
NFiles == Len(coverage_files)
Result == [exc |-> mexc, cov |-> merged_eval]
AsFile(r) == [exists |-> TRUE, coverage |-> r.cov]

\* an evaluation analyze_coverage made of this build: a contract it holds
\* has an entry for every function of the coverage map
OfBuild(file) ==
    file.exists /\ \A n \in DOMAIN file.coverage : DOMAIN file.coverage[n] = MergeFns

HasEntry(file, n, fn) ==
    file.exists /\ n \in DOMAIN file.coverage /\ fn \in DOMAIN file.coverage[n]

SameContents(e1, e2) ==
    e1.pct = e2.pct /\ e1.tx = e2.tx /\ e1.true = e2.true /\ e1.false = e2.false

\* two outcomes of a merge agree: both raise, or both return the same keys
\* with the same pct and set contents for every function
SameResult(r1, r2) ==
    /\ (r1.exc = "none") = (r2.exc = "none")
    /\ r1.exc = "none" =>
          /\ DOMAIN r1.cov = DOMAIN r2.cov
          /\ \A n \in DOMAIN r1.cov :
                /\ DOMAIN r1.cov[n] = DOMAIN r2.cov[n]
                /\ \A fn \in DOMAIN r1.cov[n] : SameContents(r1.cov[n][fn], r2.cov[n][fn])

Orderings(n) == {p \in [1 .. n -> 1 .. n] : \A a, b \in 1 .. n : p[a] = p[b] => a = b}
Permuted(files, p) == [k \in 1 .. Len(files) |-> files[p[k]]]

\* merge(merge(A, B), C) and merge(A, merge(B, C)); an inner merge that
\* raises leaves nothing to merge further
LeftGrouped(a, b, c) ==
    LET ab == merge_coverage(<<a, b>>)
    IN  IF ab.exc # "none" THEN ab ELSE merge_coverage(<<AsFile(ab), c>>)
RightGrouped(a, b, c) ==
    LET bc == merge_coverage(<<b, c>>)
    IN  IF bc.exc # "none" THEN bc ELSE merge_coverage(<<a, AsFile(bc)>>)

\* C1: merging evaluations of the same build in any order and any grouping
\* gives the same pct and the same tx / true / false sets for every function.
C1_MergeOrderAndGroupingIndependent ==
    (mpc # "call" /\ \A k \in 1 .. NFiles : OfBuild(coverage_files[k])) =>
        /\ \A p \in Orderings(NFiles) :
              SameResult(merge_coverage(Permuted(coverage_files, p)), Result)
        /\ NFiles = 3 =>
              /\ SameResult(LeftGrouped(coverage_files[1], coverage_files[2],
                                        coverage_files[3]), Result)
              /\ SameResult(RightGrouped(coverage_files[1], coverage_files[2],
                                         coverage_files[3]), Result)

\* C2: after two partially covered entries of a function are merged, the
\* pct of the result is the weighted percentage of the merged sets.
C2_MergedPctRecomputed ==
    \A n \in Contracts, fn \in MergeFns :
        (/\ mpc # "call" /\ NFiles = 2
         /\ \A k \in 1 .. 2 :
               /\ HasEntry(coverage_files[k], n, fn)
               /\ coverage_files[k].coverage[n][fn].pct \in 1 .. (PctScale - 1)) =>
            /\ mpc = "returned"
            /\ merged_eval[n][fn].pct =
                  Round4(ExecutedWeight(coverage_map[fn], merged_eval[n][fn]),
                         TotalWeight(coverage_map[fn]))

\* C3: merging two entries neither of which is fully covered gives
\* tx = union of tx plus the indices in both unions of true and false,
\* true / false = the unions minus tx.
C3_MergedSetsAreUnions ==
    \A n \in Contracts, fn \in MergeFns :
        (/\ mpc # "call" /\ NFiles = 2
         /\ \A k \in 1 .. 2 :
               /\ HasEntry(coverage_files[k], n, fn)
               /\ coverage_files[k].coverage[n][fn].pct # PctScale) =>
            LET f == coverage_files[1].coverage[n][fn]
                c == coverage_files[2].coverage[n][fn]
                hit == f.tx \cup c.tx \cup ((f.true \cup c.true) \cap (f.false \cup c.false))
            IN  /\ mpc = "returned"
                /\ merged_eval[n][fn].tx = hit
                /\ merged_eval[n][fn].true = (f.true \cup c.true) \ hit
                /\ merged_eval[n][fn].false = (f.false \cup c.false) \ hit

\* C4: a function that has pct = 1 in one of the evaluations has pct = 1
\* in the merged result, whatever the others hold and at any position.
C4_FullCoverageAbsorbing ==
    \A n \in Contracts, fn \in MergeFns :
        (/\ mpc # "call"
         /\ \E k \in 1 .. NFiles :
               /\ HasEntry(coverage_files[k], n, fn)
               /\ coverage_files[k].coverage[n][fn].pct = PctScale) =>
            /\ mpc = "returned"
            /\ n \in DOMAIN merged_eval
            /\ fn \in DOMAIN merged_eval[n]
            /\ merged_eval[n][fn].pct = PctScale

\* C5: evaluations with different key sets, or with a function at 0% on one
\* side, merge without failing: the result has the union of the keys, and a
\* function missing or at 0% on one side has the other side's sets and pct.
C5_MergeAcceptsMismatchedKeys ==
    (mpc # "call" /\ NFiles = 2 /\ \A k \in 1 .. 2 : coverage_files[k].exists) =>
        LET a == coverage_files[1].coverage
            b == coverage_files[2].coverage
            Takes(n, fn, x, y) ==    \* fn is missing or at 0% in x and present in y
                (HasEntry(AsFile([cov |-> y]), n, fn)
                 /\ (~HasEntry(AsFile([cov |-> x]), n, fn) \/ x[n][fn].pct = 0))
                    => SameContents(merged_eval[n][fn], y[n][fn])
        IN  /\ mpc = "returned"
            /\ DOMAIN merged_eval = DOMAIN a \cup DOMAIN b
            /\ \A n \in DOMAIN merged_eval :
                  /\ DOMAIN merged_eval[n] =
                        (IF n \in DOMAIN a THEN DOMAIN a[n] ELSE {})
                        \cup (IF n \in DOMAIN b THEN DOMAIN b[n] ELSE {})
                  /\ \A fn \in DOMAIN merged_eval[n] :
                        Takes(n, fn, a, b) /\ Takes(n, fn, b, a)


----------------------------------------------------------------------------
(***************************************************************************)
(* analyze_coverage (coverage.py 12-85)                                    *)
(*                                                                         *)
(* history and each tx.trace are inputs.  The model fixes an element of    *)
(* a trace when the loop first reads it: trace[i] at the head of the loop  *)
(* (line 22), or trace[i+1] at the look-ahead of line 57; EndOfTrace       *)
(* stands for "trace[i] was the last sample".                              *)
(***************************************************************************)
EndOfTrace == [pc |-> -1, contractName |-> "", filename |-> "", op |-> "<end>"]

\* a step inside the build's contract K: the trace names the contract, the
\* source file that the pcMap gives for the pc, and the opcode.  A pc that
\* the pcMap does not hold (pc 1: a trace of another version of K) still
\* comes with the contract's name and file.
SampleAt(pc) ==
    [pc |-> pc,
     contractName |-> "K",
     filename |-> IF pc \in DOMAIN pcMap THEN pcMap[pc].path ELSE "P",
     op |-> IF pc \in DOMAIN pcMap THEN pcMap[pc].op ELSE "ADD"]

\* a step inside a contract that has no build: no name, no file
ExternalSample == [pc |-> 8, contractName |-> "", filename |-> "", op |-> "SLOAD"]

TracePcs == {0, 1, 2, 3, 4, 5, 7, 8, 9, 10}
Samples == {SampleAt(pc) : pc \in TracePcs} \cup {ExternalSample}

EmptySets == [tx |-> {}, true |-> {}, false |-> {}]

\* dict.setdefault(key, value)
SetDefault(d, key, value) == IF key \in DOMAIN d THEN d ELSE d @@ (key :> value)

\* tx_eval kept from one transaction to the next (line 20 moved out of the loop)
KeptTxEval(te) == te

\* line 20: tx_eval = {}
NewTxEval(te) == <<>>

\* line 54: the index of the first unit of the function with 'jump' == pc,
\* NoIdx when there is none (next() raises StopIteration)
JumpUnit(maps, pc) ==
    LET found == {k \in Indices(maps) : maps[k + 1].jump = pc}
    IN  IF found = {} THEN NoIdx
        ELSE CHOOSE k \in found : \A k2 \in found : k <= k2

\* line 55 negated: the JUMPI is evaluated only if the unit was hit by this
\* transaction and both directions are not yet recorded
Creditable(sets, hits, idx) == idx \in hits /\ idx \notin sets.tx

\* line 57 with the two tuples exchanged
DirectionSwapped(pc, nxt) ==
    IF nxt.pc = pc + 1 THEN <<"true", "false">> ELSE <<"false", "true">>

\* line 57: <<the direction taken, the other one>>
Direction(pc, nxt) == IF nxt.pc = pc + 1 THEN <<"false", "true">> ELSE <<"true", "false">>

\* lines 59-63 without the discard of line 62
RecordDirectionKeepBoth(sets, idx, key) ==
    IF idx \notin sets[key[2]]
    THEN [sets EXCEPT ![key[1]] = @ \cup {idx}]
    ELSE [sets EXCEPT !.tx = @ \cup {idx}]

\* lines 59-63
RecordDirection(sets, idx, key) ==
    IF idx \notin sets[key[2]]
    THEN [sets EXCEPT ![key[1]] = @ \cup {idx}]                        \* 59-61
    ELSE [sets EXCEPT ![key[2]] = @ \ {idx}, !.tx = @ \cup {idx}]      \* 62-63

Outcome(e, ce, te) == [exc |-> e, coverage_eval |-> ce, tx_eval |-> te]

\* lines 22-63: the body of the loop for the sample t, nxt being trace[i+1]
ProcessSample(ce0, te0, t, nxt) ==
    LET name == t.contractName
        pc == t.pc
    IN
    IF name = "" \/ t.filename = "" THEN Outcome("none", ce0, te0)                    \* 26-27
    ELSE
    LET ce1 == SetDefault(ce0, name, <<>>)                                            \* 30-33
        te1 == SetDefault(te0, name, <<>>)                                            \* 34-35
    IN
    IF pc \notin DOMAIN pcMap THEN Outcome("KeyError", ce0, te0)                      \* 37: pcMap[name][pc]
    ELSE IF pcMap[pc].fn = NoFn THEN Outcome("KeyError", ce0, te0)                    \* 37: [...]['fn']
    ELSE
    LET fn == pcMap[pc].fn
        maps == coverage_map[fn]
        ce2 == [ce1 EXCEPT ![name] = SetDefault(@, fn, EmptySets)]                    \* 41
        te2 == [te1 EXCEPT ![name] = SetDefault(@, fn, {})]                           \* 42
        idx == pcMap[pc].coverageIndex
        jdx == JumpUnit(maps, pc)
    IN
    IF t.op # "JUMPI" THEN
        IF idx = NoIdx THEN Outcome("none", ce2, te2)                                 \* 44-45
        ELSE IF IsJump(maps, idx)                                                     \* 48
            THEN Outcome("none", ce2, [te2 EXCEPT ![name][fn] = @ \cup {idx}])        \* 49
            ELSE Outcome("none", [ce2 EXCEPT ![name][fn].tx = @ \cup {idx}], te2)     \* 51
    ELSE IF jdx = NoIdx THEN Outcome("StopIteration", ce0, te0)                       \* 54
    ELSE IF ~Creditable(ce2[name][fn], te2[name][fn], jdx)
        THEN Outcome("none", ce2, te2)                                                \* 55-56
    ELSE IF nxt = EndOfTrace THEN Outcome("IndexError", ce0, te0)                     \* 57: trace[i+1]
    ELSE Outcome("none",
                 [ce2 EXCEPT ![name][fn] = RecordDirection(@, jdx, Direction(pc, nxt))],
                 te2)                                                                 \* 57-63

\* lines 66-85 without the branch of lines 67-69: only sampled functions
EvaluatedSampledOnly(ce) ==
    [name \in DOMAIN ce |->
        [fn \in DOMAIN ce[name] |-> EvaluateEntry(coverage_map[fn], ce[name][fn])]]

\* lines 66-85: the percentages
Evaluated(ce) ==
    [name \in DOMAIN ce |->
        [fn \in DOMAIN coverage_map |->
            IF fn \notin DOMAIN ce[name] THEN PctOnly(0)                              \* 67-69
            ELSE EvaluateEntry(coverage_map[fn], ce[name][fn])]]                      \* 70-84

----------------------------------------------------------------------------
\* lines 17-19: a transaction without receiver (a deployment) is passed over
SkipTx ==
    /\ apc = "history"
    /\ txn < MaxTx
    /\ txn' = txn + 1
    /\ UNCHANGED <<coverage_eval, tx_eval, trace, i, apc, exc>>
    /\ UNCHANGED mergeVars
    /\ UNCHANGED builderVars
    /\ UNCHANGED linesVars
    /\ UNCHANGED restVars

\* lines 17-21: the next transaction of history; its trace is empty or
\* starts with the sample `first`
BeginTx ==
    /\ apc = "history"
    /\ txn < MaxTx
    /\ txn' = txn + 1
    /\ tx_eval' = NewTxEval(tx_eval)
    /\ i' = 0
    /\ \/ trace' = <<>> /\ apc' = "history"
       \/ \E first \in Samples : trace' = <<first>> /\ apc' = "trace"
    /\ UNCHANGED <<coverage_eval, exc>>
    /\ UNCHANGED mergeVars
    /\ UNCHANGED builderVars
    /\ UNCHANGED linesVars
    /\ UNCHANGED restVars

\* lines 22-63: one iteration of the loop over the trace
Sample ==
    /\ apc = "trace"
    /\ \E nxt \in Samples \cup {EndOfTrace} :
          /\ nxt # EndOfTrace => Len(trace) < MaxTrace
          /\ LET out == ProcessSample(coverage_eval, tx_eval, trace[i + 1], nxt)
             IN  IF out.exc # "none"
                 THEN /\ exc' = out.exc
                      /\ apc' = "raised"
                      /\ UNCHANGED <<coverage_eval, tx_eval, trace, i>>
                 ELSE /\ coverage_eval' = out.coverage_eval
                      /\ tx_eval' = out.tx_eval
                      /\ i' = i + 1
                      /\ trace' = IF nxt = EndOfTrace THEN trace ELSE Append(trace, nxt)
                      /\ apc' = IF nxt = EndOfTrace THEN "history" ELSE "trace"
                      /\ UNCHANGED exc
    /\ UNCHANGED txn
    /\ UNCHANGED mergeVars
    /\ UNCHANGED builderVars
    /\ UNCHANGED linesVars
    /\ UNCHANGED restVars

\* lines 66-85: history is exhausted
Evaluate ==
    /\ apc = "history"
    /\ coverage_eval' = Evaluated(coverage_eval)
    /\ apc' = "returned"
    /\ UNCHANGED <<tx_eval, trace, i, txn, exc>>
    /\ UNCHANGED mergeVars
    /\ UNCHANGED builderVars
    /\ UNCHANGED linesVars
    /\ UNCHANGED restVars

InitAnalyze ==
    /\ coverage_eval = <<>>
    /\ tx_eval = <<>>
    /\ trace = <<>>
    /\ i = 0
    /\ txn = 0
    /\ apc = "history"
    /\ exc = "none"
    /\ MergeIdle
    /\ BuilderIdle
    /\ LinesIdle
    /\ RestIdle

NextAnalyze == SkipTx \/ BeginTx \/ Sample \/ Evaluate

SpecAnalyze == InitAnalyze /\ [][NextAnalyze]_vars


----------------------------------------------------------------------------
(***************************************************************************)
(* Claims about analyze_coverage                                           *)
(***************************************************************************)
BranchUnits(maps) == {k \in Indices(maps) : maps[k + 1].jump # NoJump}
StatementUnits(maps) == Indices(maps) \ BranchUnits(maps)

\* the sets of a function in an evaluation that is being built
SetsOf(ce, name, fn) ==
    IF name \in DOMAIN ce /\ fn \in DOMAIN ce[name] THEN ce[name][fn] ELSE EmptySets

\* the weights as the claim states them
StatedTotal(maps) == 2 * Cardinality(BranchUnits(maps)) + Cardinality(StatementUnits(maps))
StatedExecuted(maps, sets) ==
    2 * Cardinality(BranchUnits(maps) \cap sets.tx)
    + Cardinality({k \in BranchUnits(maps) : (k \in sets.true) # (k \in sets.false)})
    + Cardinality(StatementUnits(maps) \cap sets.tx)

\* pct is executed / total rounded to 4 places: no multiple of 1/PctScale is nearer
IsRounded(pct, executed, total) ==
    LET d == pct * total - executed * PctScale
    IN  2 * d <= total /\ -2 * d <= total

\* C6: when the percentages are evaluated, every function of the coverage
\* map gets pct = round(executed / total, 4) with branch units weighing 2
\* (1 with a single direction) and statement units 1; 0 <= pct <= 1; one
\* branch with both directions and two hit statements give 1.0, with one
\* direction 0.75.
C6_PctIsWeightedRatio ==
    [][(apc = "history" /\ apc' = "returned") =>
          \A name \in DOMAIN coverage_eval', fn \in DOMAIN coverage_map :
              LET maps == coverage_map[fn]
                  sets == SetsOf(coverage_eval, name, fn)
                  pct == coverage_eval'[name][fn].pct
                  oneBranchTwoStatements ==
                      Cardinality(BranchUnits(maps)) = 1 /\ Cardinality(StatementUnits(maps)) = 2
              IN  /\ pct \in 0 .. PctScale
                  /\ IsRounded(pct, StatedExecuted(maps, sets), StatedTotal(maps))
                  /\ (oneBranchTwoStatements /\ sets.tx = Indices(maps)) => pct = PctScale
                  /\ (/\ oneBranchTwoStatements
                      /\ sets.tx = StatementUnits(maps)
                      /\ (sets.true \cup sets.false) = BranchUnits(maps)) => pct = 7500]_vars

\* reached for C6: K.f evaluated at 0.75 with its two statements hit and one
\* direction of its branch taken
C6_Witness ==
    /\ apc = "returned"
    /\ "K" \in DOMAIN coverage_eval
    /\ coverage_eval["K"]["K.f"].pct = 7500
    /\ coverage_eval["K"]["K.f"].tx = {1, 2}
    /\ coverage_eval["K"]["K.f"].true \cup coverage_eval["K"]["K.f"].false = {0}

\* the directions of branch unit idx that the evaluation holds as taken
DirectionsCredited(sets, idx) ==
    {d \in {"true", "false"} : idx \in sets[d] \/ idx \in sets.tx}

\* the sample is a non-JUMPI instruction of unit idx of fn (its pcMap entry
\* refers back to the unit)
BelongsToUnit(t, fn, idx) ==
    /\ t.contractName # "" /\ t.filename # ""
    /\ t.pc \in DOMAIN pcMap
    /\ t.op # "JUMPI"
    /\ pcMap[t.pc].fn = fn
    /\ pcMap[t.pc].coverageIndex = idx

\* C7: a step of the trace loop credits a direction of a branch unit only if
\* an instruction of that unit was sampled earlier in the trace of the same
\* transaction.
C7_CreditNeedsAnchorInSameTx ==
    [][apc = "trace" =>
          \A name \in DOMAIN coverage_eval', fn \in DOMAIN coverage_map :
              \A idx \in BranchUnits(coverage_map[fn]) :
                  DirectionsCredited(SetsOf(coverage_eval', name, fn), idx)
                        # DirectionsCredited(SetsOf(coverage_eval, name, fn), idx)
                     => \E k \in 1 .. i : BelongsToUnit(trace[k], fn, idx)]_vars

\* reached for C7: the second transaction sampled the anchor (pc 2), then the
\* JUMPI (pc 7), and a direction of unit 0 of K.f is credited
C7_Witness ==
    /\ txn = 2
    /\ Len(trace) >= 3 /\ i >= 2
    /\ trace[1].pc = 2 /\ trace[2].pc = 7
    /\ DirectionsCredited(SetsOf(coverage_eval, "K", "K.f"), 0) # {}

\* C8: a JUMPI sample at pc p that gets a direction credited records
\* 'false' when the next sample has pc p + 1 and 'true' otherwise.
C8_DirectionFromNextPc ==
    [][(apc = "trace" /\ trace[i + 1].op = "JUMPI") =>
          \A name \in DOMAIN coverage_eval', fn \in DOMAIN coverage_map :
              \A idx \in BranchUnits(coverage_map[fn]) :
                  LET before == DirectionsCredited(SetsOf(coverage_eval, name, fn), idx)
                      after == DirectionsCredited(SetsOf(coverage_eval', name, fn), idx)
                  IN  after # before =>
                         /\ Len(trace') >= i + 2
                         /\ after = before \cup
                               {IF trace'[i + 2].pc = trace[i + 1].pc + 1 THEN "false" ELSE "true"}]_vars

\* reached for C8: the JUMPI at pc 7 fell through to pc 8 in one transaction
\* (false) and jumped to pc 9 in the other (true): unit 0 is hit
C8_Witness ==
    /\ apc = "trace"
    /\ i = 2 /\ Len(trace) = 3
    /\ trace[2].pc = 7 /\ trace[3].pc = 9
    /\ SetsOf(coverage_eval, "K", "K.f").tx = {0}

\* the sample is in contract K with a source file, and the step took it
\* without raising
TakenQuietly ==
    /\ apc' # "raised" /\ exc' = "none"
    /\ i' = i + 1

\* C9: a sample whose pc is absent from the pcMap is skipped: no error, the
\* sets of every function unchanged, the loop goes on.
C9_AbsentPcSkipped ==
    [][(/\ apc = "trace"
        /\ trace[i + 1].contractName # "" /\ trace[i + 1].filename # ""
        /\ trace[i + 1].pc \notin DOMAIN pcMap) =>
          /\ TakenQuietly
          /\ \A fn \in DOMAIN coverage_map :
                SetsOf(coverage_eval', "K", fn) = SetsOf(coverage_eval, "K", fn)]_vars

\* C10: a sample whose pcMap entry has no 'fn' is left out of coverage: no
\* error, and no function's sets change.
C10_NoFunctionSkipped ==
    [][(/\ apc = "trace"
        /\ trace[i + 1].contractName # "" /\ trace[i + 1].filename # ""
        /\ trace[i + 1].pc \in DOMAIN pcMap
        /\ pcMap[trace[i + 1].pc].fn = NoFn) =>
          /\ TakenQuietly
          /\ \A fn \in DOMAIN coverage_map :
                SetsOf(coverage_eval', "K", fn) = SetsOf(coverage_eval, "K", fn)]_vars

\* the sample the loop is at is a JUMPI of contract K whose pcMap entry names
\* a function
JumpiSample ==
    /\ apc = "trace"
    /\ trace[i + 1].op = "JUMPI"
    /\ trace[i + 1].contractName # "" /\ trace[i + 1].filename # ""
    /\ trace[i + 1].pc \in DOMAIN pcMap
    /\ pcMap[trace[i + 1].pc].fn # NoFn

\* C11: analyze_coverage never aborts on a JUMPI sample: one that controls
\* no branch unit of the coverage map, or one that is the last sample of its
\* trace, is skipped and the loop goes on.
C11_JumpiNeverAborts ==
    [][JumpiSample => apc' # "raised"]_vars

\* C12: when the percentages are evaluated, every function of the coverage
\* map has an entry under every evaluated contract, and a function for which
\* nothing was recorded has pct = 0.
C12_NoFunctionOmitted ==
    [][(apc = "history" /\ apc' = "returned") =>
          \A name \in DOMAIN coverage_eval' :
              \A fn \in DOMAIN coverage_map :
                  /\ fn \in DOMAIN coverage_eval'[name]
                  /\ SetsOf(coverage_eval, name, fn) = EmptySets
                        => coverage_eval'[name][fn].pct = 0]_vars

\* reached for C12: K was evaluated with samples of K.f only; K.g, never
\* sampled, has its entry with pct = 0
C12_Witness ==
    /\ apc = "returned"
    /\ "K" \in DOMAIN coverage_eval
    /\ "K.g" \in DOMAIN coverage_eval["K"]
    /\ coverage_eval["K"]["K.g"].pct = 0
    /\ coverage_eval["K"]["K.f"].pct > 0


----------------------------------------------------------------------------
(***************************************************************************)
(* _generate_pcMap (brownie/project/compiler.py), for one contract that    *)
(* has deployed bytecode.                                                  *)
(*                                                                         *)
(*   - data['opcodes'] is the sequence of its tokens; solc ends every      *)
(*     token with a space, so the split of line 145 yields a final "";     *)
(*   - an entry of data['deployedSourceMap'] is the sequence of its        *)
(*     ':'-separated fields, start, length and file_id as the integers     *)
(*     they spell (EmptyField for an empty one), the jump kind as a        *)
(*     string; "" is <<EmptyField>>, "8:3" is <<8, 3>>;                    *)
(*   - the source map is read entry by entry, source_map_len in all;       *)
(*   - source unit 0 is the file P of contract K, whose only function      *)
(*     K.f has the source range (0, 2).                                    *)
(***************************************************************************)
MaxEntries == 3     \* entries of a deployedSourceMap
MaxOps == 4         \* instructions of a deployed opcode stream

EmptyField == -2       \* '' where a number is expected
Absent == "<absent>"   \* a key that a pcMap entry does not have

\* lines 157-158 left out: the pc advances by 1 after every instruction
PushWidthNone(op) == 0

\* lines 157-158: op[:4] == "PUSH" and int(op[4:])
PushWidth(op) == IF op = "PUSH1" THEN 1 ELSE IF op = "PUSH2" THEN 2 ELSE 0

\* line 169: token[:2] == "0x"
IsOperand(token) == token \in {"0x80", "0x0102"}

\* lines 137-144 with the test of line 142 left out and nothing cut
TrimLoopKeepAll(toks) == toks

\* lines 137-144: opcodes[:-1] hides a STOP that ends the string, so the
\* search of line 139 finds the last STOP that is neither the first nor the
\* final token
RECURSIVE TrimLoop(_)
TrimLoop(toks) ==
    LET stops == {k \in 2 .. (Len(toks) - 1) : toks[k] = "STOP"}
    IN  IF stops = {} THEN toks                                           \* 140-141
        ELSE LET k == CHOOSE k1 \in stops : \A k2 \in stops : k2 <= k1    \* 139
             IN  IF \E j \in k .. Len(toks) : toks[j] = "JUMPDEST"
                 THEN toks                                                \* 142-143
                 ELSE TrimLoop(SubSeq(toks, 1, k))                        \* 144

\* line 161: (value + ":::").split(':')[:4]
Field(v, k) == IF k <= Len(v) THEN v[k] ELSE IF k = 4 THEN "" ELSE EmptyField

\* line 160: the entry is the empty string
IsEmptyString(v) == Len(v) = 1 /\ v[1] = EmptyField

Resolved(e, lst) == [exc |-> e, last |-> lst]

\* lines 160-165 with every falsy field, the number 0 too, taken from last
ResolveZeroEmpty(v, lst) ==
    LET num(k) == IF Field(v, k) \in {EmptyField, 0} THEN lst[k] ELSE Field(v, k)
    IN  IF IsEmptyString(v) THEN Resolved("none", lst)
        ELSE IF Field(v, 4) = "" /\ Len(lst) < 4 THEN Resolved("IndexError", lst)
        ELSE Resolved("none", <<num(1), num(2), num(3),
                                IF Field(v, 4) = "" THEN lst[4] ELSE Field(v, 4)>>)

\* lines 160-165: the fields are strings, so only '' is falsy
Resolve(v, lst) ==
    LET num(k) == IF Field(v, k) = EmptyField THEN lst[k] ELSE Field(v, k)  \* 163
    IN  IF IsEmptyString(v) THEN Resolved("none", lst)                      \* 160
        ELSE IF Field(v, 4) = "" /\ Len(lst) < 4
            THEN Resolved("IndexError", lst)                                \* 164: last[3]
        ELSE Resolved("none", <<num(1), num(2), num(3),
                                IF Field(v, 4) = "" THEN lst[4] ELSE Field(v, 4)>>)

\* lines 147-149: the first entry is split and its first three fields parsed
FirstEntry(v) ==
    LET bad == {k \in 1 .. 3 : k > Len(v) \/ v[k] = EmptyField}
        k == CHOOSE k1 \in bad : \A k2 \in bad : k1 <= k2
    IN  IF bad = {} THEN Resolved("none", v)
        ELSE IF k > Len(v) THEN Resolved("IndexError", v)
        ELSE Resolved("ValueError", v)

\* line 128: id_map, the source units by id
SourceIds == {0}
PathOf(file_id) == "P"

\* lines 180-183: node.child_by_offset(offset).full_name, NoFn on KeyError
FnAt(offset) == IF 0 <= offset[1] /\ offset[2] <= 2 THEN "K.f" ELSE NoFn


BuiltEntry(op, val, jump, path, offset, fn) ==
    [op |-> op, value |-> val, jump |-> jump, path |-> path, offset |-> offset, fn |-> fn]

Mapped(e, lst, ops, pc, entry) ==
    [exc |-> e, last |-> lst, opcodes |-> ops, pc |-> pc, entry |-> entry]

NoEntry == BuiltEntry(Absent, Absent, Absent, Absent, <<>>, NoFn)

\* lines 146-155: the entry of pc 0 from the first source-map entry v
MapFirstEntry(v, ops) ==
    LET r == FirstEntry(v)
        lst == r.last
    IN  IF r.exc # "none" THEN Mapped(r.exc, <<>>, ops, 0, NoEntry)             \* 147-149
        ELSE IF ops = <<>> THEN Mapped("IndexError", <<>>, ops, 0, NoEntry)      \* 152
        ELSE IF lst[3] \notin SourceIds
            THEN Mapped("KeyError", <<>>, ops, 0, NoEntry)                       \* 153
        ELSE IF Tail(ops) = <<>> THEN Mapped("IndexError", <<>>, ops, 0, NoEntry) \* 155
        ELSE Mapped("none", lst, Tail(Tail(ops)), 0,
                    BuiltEntry(ops[1], ops[2], Absent, PathOf(lst[3]),
                               <<lst[1], lst[1] + lst[2]>>, NoFn))

\* lines 157-183: one iteration of the loop, for the source-map entry v
MapEntry(v, lst0, ops, pc0, op0) ==
    LET pc1 == pc0 + PushWidth(op0) + 1                                         \* 157-159
        r == Resolve(v, lst0)
        lst == r.last
    IN  IF r.exc # "none" THEN Mapped(r.exc, lst0, ops, pc1, NoEntry)            \* 160-165
        ELSE IF ops = <<>> THEN Mapped("IndexError", lst, ops, pc1, NoEntry)     \* 166
        ELSE IF Len(lst) < 4 THEN Mapped("IndexError", lst, ops, pc1, NoEntry)   \* 167
        ELSE IF Tail(ops) = <<>>
            THEN Mapped("IndexError", lst, ops, pc1, NoEntry)                    \* 169
        ELSE
        LET jump == IF lst[4] # "-" THEN lst[4] ELSE Absent                      \* 167-168
            operand == IsOperand(ops[2])                                         \* 169
            val == IF operand THEN ops[2] ELSE Absent                            \* 170
            rest == IF operand THEN Tail(Tail(ops)) ELSE Tail(ops)
            offset == <<lst[1], lst[1] + lst[2]>>                                \* 178
        IN  IF lst[3] = -1                                                       \* 171-172
            THEN Mapped("none", lst, rest, pc1,
                        BuiltEntry(ops[1], val, jump, Absent, <<>>, NoFn))
            ELSE IF lst[3] \notin SourceIds
            THEN Mapped("KeyError", lst, ops, pc1, NoEntry)                      \* 173
            ELSE IF lst[1] = -1                                                  \* 176-177
            THEN Mapped("none", lst, rest, pc1,
                        BuiltEntry(ops[1], val, jump, PathOf(lst[3]), <<>>, NoFn))
            ELSE Mapped("none", lst, rest, pc1,
                        BuiltEntry(ops[1], val, jump, PathOf(lst[3]), offset,
                                   FnAt(offset)))                                \* 178-183

EntriesRead == Cardinality(DOMAIN builtPcMap)

\* lines 134-145: the opcode string is trimmed, split and reversed
TrimOpcodes ==
    /\ bstage = "trim"
    /\ opcodes' = TrimLoop(build_opcodes)
    /\ bstage' = "first"
    /\ UNCHANGED <<build_opcodes, source_map_len, cur_pc, last, raw_value, builtPcMap, bexc>>
    /\ UNCHANGED <<mergeVars, analyzeVars>>
    /\ UNCHANGED linesVars
    /\ UNCHANGED restVars

\* lines 146-155, the first source-map entry being one of values
MapFirst(values) ==
    /\ bstage = "first"
    /\ \E v \in values :
          LET out == MapFirstEntry(v, opcodes)
          IN  /\ raw_value' = v
              /\ IF out.exc # "none"
                 THEN /\ bexc' = out.exc
                      /\ bstage' = "raised"
                      /\ UNCHANGED <<opcodes, cur_pc, last, builtPcMap>>
                 ELSE /\ builtPcMap' = (0 :> out.entry)
                      /\ opcodes' = out.opcodes
                      /\ last' = out.last
                      /\ cur_pc' = 0
                      /\ bstage' = "loop"
                      /\ UNCHANGED bexc
    /\ UNCHANGED <<build_opcodes, source_map_len>>
    /\ UNCHANGED <<mergeVars, analyzeVars>>
    /\ UNCHANGED linesVars
    /\ UNCHANGED restVars

\* lines 156-183: one iteration, the next source-map entry being one of values
MapInstruction(values) ==
    /\ bstage = "loop"
    /\ EntriesRead < source_map_len
    /\ \E v \in values :
          LET out == MapEntry(v, last, opcodes, cur_pc, builtPcMap[cur_pc].op)
          IN  /\ raw_value' = v
              /\ IF out.exc # "none"
                 THEN /\ bexc' = out.exc
                      /\ bstage' = "raised"
                      /\ UNCHANGED <<opcodes, cur_pc, last, builtPcMap>>
                 ELSE /\ builtPcMap' = (builtPcMap @@ (out.pc :> out.entry))
                      /\ opcodes' = out.opcodes
                      /\ last' = out.last
                      /\ cur_pc' = out.pc
                      /\ UNCHANGED <<bstage, bexc>>
    /\ UNCHANGED <<build_opcodes, source_map_len>>
    /\ UNCHANGED <<mergeVars, analyzeVars>>
    /\ UNCHANGED linesVars
    /\ UNCHANGED restVars

\* lines 184-185: the source map is exhausted, data['pcMap'] = pcMap
StorePcMap ==
    /\ bstage = "loop"
    /\ EntriesRead = source_map_len
    /\ bstage' = "built"
    /\ UNCHANGED <<build_opcodes, source_map_len, opcodes, cur_pc, last, raw_value,
                   builtPcMap, bexc>>
    /\ UNCHANGED <<mergeVars, analyzeVars>>
    /\ UNCHANGED linesVars
    /\ UNCHANGED restVars


----------------------------------------------------------------------------
(* Source maps: every way of writing an entry with these field values *)
Starts == {EmptyField, -1, 0}
FirstLengths == {EmptyField, 2}
Lengths == {EmptyField, 3}
FileIds == {EmptyField, -1, 0}
Jumps == {"", "-", "i"}

RawEntries(lengths) ==
    {<<s>> : s \in Starts}
    \cup {<<s, l>> : s \in Starts, l \in lengths}
    \cup {<<s, l, f>> : s \in Starts, l \in lengths, f \in FileIds}
    \cup {<<s, l, f, j>> : s \in Starts, l \in lengths, f \in FileIds, j \in Jumps}

FirstEntries == RawEntries(FirstLengths)
Entries == RawEntries(Lengths)

\* a stream with more instructions than any source map read against it
LongStream == <<"PUSH1", "0x80", "PUSH2", "0x0102">> \o [k \in 1 .. MaxEntries |-> "ADD"] \o <<"">>

InitSourceMap ==
    /\ build_opcodes = LongStream
    /\ source_map_len \in 1 .. MaxEntries
    /\ opcodes = <<>>
    /\ cur_pc = 0
    /\ last = <<>>
    /\ raw_value = <<>>
    /\ builtPcMap = <<>>
    /\ bstage = "trim"
    /\ bexc = "none"
    /\ MergeIdle
    /\ AnalyzeIdle
    /\ LinesIdle
    /\ RestIdle

NextSourceMap ==
    TrimOpcodes \/ MapFirst(FirstEntries) \/ MapInstruction(Entries) \/ StorePcMap

SpecSourceMap == InitSourceMap /\ [][NextSourceMap]_vars

----------------------------------------------------------------------------
(* Opcode streams: the instructions solc emitted, one source-map entry      *)
(* each, then what the disassembly shows of the bytes appended to the code  *)
Instructions == {<<"PUSH1", "0x80">>, <<"PUSH2", "0x0102">>, <<"JUMPDEST">>, <<"STOP">>, <<"JUMP">>}
Appended == {<<"">>,
             <<"STOP", "LOG1", "">>,
             <<"INVALID", "LOG1", "STOP", "">>,
             <<"STOP", "JUMPDEST", "LOG1", "">>}

RECURSIVE Flatten(_)
Flatten(instrs) == IF instrs = <<>> THEN <<>> ELSE Head(instrs) \o Flatten(Tail(instrs))

PlainFirstEntries == {<<0, 2, 0, "-">>}
PlainEntries == {<<EmptyField>>, <<0, 3, 0, "i">>}

InitPcMap ==
    /\ \E n \in 1 .. MaxOps :
          \E instrs \in [1 .. n -> Instructions], tail \in Appended :
              /\ instrs[1] = <<"PUSH1", "0x80">>
              /\ build_opcodes = Flatten(instrs) \o tail
              /\ source_map_len = n
    /\ opcodes = <<>>
    /\ cur_pc = 0
    /\ last = <<>>
    /\ raw_value = <<>>
    /\ builtPcMap = <<>>
    /\ bstage = "trim"
    /\ bexc = "none"
    /\ MergeIdle
    /\ AnalyzeIdle
    /\ LinesIdle
    /\ RestIdle

NextPcMap ==
    TrimOpcodes \/ MapFirst(PlainFirstEntries) \/ MapInstruction(PlainEntries) \/ StorePcMap

SpecPcMap == InitPcMap /\ [][NextPcMap]_vars


----------------------------------------------------------------------------
(***************************************************************************)
(* Claims about the source-map decoding of _generate_pcMap                 *)
(***************************************************************************)
\* field k (1 start, 2 length, 3 file_id, 4 jump kind) is written in entry v
Specified(v, k) == k <= Len(v) /\ v[k] # (IF k = 4 THEN "" ELSE EmptyField)

FullySpecified(v) == \A k \in 1 .. 4 : Specified(v, k)

\* the step read a source-map entry after the first and mapped an instruction
MappedNext == bstage = "loop" /\ bstage' = "loop" /\ EntriesRead' = EntriesRead + 1

\* C13: for each source-map entry after the first, every field written in
\* the entry takes its own value (0 and -1 included) and every field that is
\* empty or missing takes the value of the preceding resolved entry.
C13_FieldsInheritOrOverride ==
    [][MappedNext =>
          /\ Len(last') = 4
          /\ \A k \in 1 .. 4 :
                last'[k] = IF Specified(raw_value', k) THEN raw_value'[k] ELSE last[k]]_vars

\* reached for C13: the first entry began at -1 with length 2; a later entry
\* "0::-1" took start 0 and file -1 from its own fields, length 3 and jump
\* kind i from the entry before it
C13_Witness ==
    /\ bstage = "loop"
    /\ EntriesRead >= 3
    /\ builtPcMap[0].offset = <<-1, 1>>
    /\ raw_value = <<0, EmptyField, -1>>
    /\ last = <<0, 3, -1, "i">>

\* C14: a first source-map entry that does not specify all four fields makes
\* the build fail; no pcMap is produced.
C14_PartialFirstEntryFails ==
    [][(bstage = "first" /\ ~FullySpecified(raw_value')) => bstage' = "raised"]_vars

\* the file_id of the entry the step read, its own or the inherited one
ResolvedFileId(v, lst) == IF Specified(v, 3) THEN v[3] ELSE lst[3]

\* the step read a source-map entry whose file_id is -1
ReadsNoSourceEntry ==
    \/ bstage = "first" /\ FullySpecified(raw_value') /\ raw_value'[3] = -1
    \/ /\ bstage = "loop" /\ bstage' # "built"
       /\ ResolvedFileId(raw_value', last) = -1

\* C15: an entry with file_id -1 is never an error, at the first position
\* either: the instruction gets a pcMap entry with its opcode and without
\* path, offset and fn.
C15_NoSourceNeverFails ==
    [][ReadsNoSourceEntry =>
          /\ bstage' # "raised"
          /\ builtPcMap'[cur_pc'].op # Absent
          /\ builtPcMap'[cur_pc'].path = Absent
          /\ builtPcMap'[cur_pc'].offset = <<>>
          /\ builtPcMap'[cur_pc'].fn = NoFn]_vars


----------------------------------------------------------------------------
(***************************************************************************)
(* Claims about the program counters and the opcodes of _generate_pcMap    *)
(***************************************************************************)
\* the number of operand bytes that follow an opcode in the bytecode
OperandBytes(op) == CASE op = "PUSH1" -> 1 [] op = "PUSH2" -> 2 [] OTHER -> 0

\* C16: the keys of the pcMap start at 0; each further key is the preceding
\* key plus 1 plus the operand bytes of the preceding instruction, and no
\* operand byte of a PUSH is a key.
C16_KeysAdvanceByWidth ==
    LET keys == DOMAIN builtPcMap
    IN  keys # {} =>
           /\ 0 \in keys
           /\ \A k \in keys \ {0} :
                 \E p \in keys :
                    /\ p < k
                    /\ \A q \in keys : ~(p < q /\ q < k)
                    /\ k = p + 1 + OperandBytes(builtPcMap[p].op)
           /\ \A p \in keys :
                 \A b \in 1 .. OperandBytes(builtPcMap[p].op) : p + b \notin keys

\* reached for C16: PUSH1 at 0, PUSH2 at 2, and the two instructions after it
\* at 5 and 6
C16_Witness ==
    /\ bstage = "built"
    /\ DOMAIN builtPcMap = {0, 2, 5, 6}
    /\ builtPcMap[2].op = "PUSH2"

\* the first n instructions of the token sequence with their start pcs
RECURSIVE StatedInstructions(_, _, _)
StatedInstructions(toks, at, n) ==
    IF n = 0 \/ toks = <<>> THEN {}
    ELSE LET w == OperandBytes(toks[1])
         IN  {[pc |-> at, op |-> toks[1], value |-> IF w > 0 THEN toks[2] ELSE Absent]}
             \cup StatedInstructions(SubSeq(toks, IF w > 0 THEN 3 ELSE 2, Len(toks)),
                                     at + 1 + w, n - 1)

\* C17: for every opcode stream whose source map has one entry per
\* instruction the build completes, and the pcMap holds exactly the start pc
\* of every instruction with that instruction's opcode and, for a PUSH, its
\* operand.
C17_EveryInstructionMapped ==
    /\ bstage # "raised"
    /\ bstage = "built" =>
          {[pc |-> k, op |-> builtPcMap[k].op, value |-> builtPcMap[k].value] :
                k \in DOMAIN builtPcMap}
             = StatedInstructions(build_opcodes, 0, source_map_len)


\* the opcodes of a token sequence: the "" after the trailing space is none
Code(toks) ==
    IF toks # <<>> /\ toks[Len(toks)] = "" THEN SubSeq(toks, 1, Len(toks) - 1) ELSE toks

NoJumpdest(toks) == \A j \in 1 .. Len(toks) : toks[j] # "JUMPDEST"

\* C18: the trimming removes the end of the opcode stream after a STOP when
\* that end holds no JUMPDEST, and nothing else: what is kept is a prefix,
\* what is removed follows a STOP and holds no JUMPDEST (so nothing at or
\* before the last JUMPDEST goes), no such end is left behind, and the pcMap
\* entries are made of kept opcodes only.
C18_TrailingRegionTrimmed ==
    [][/\ bstage = "trim" =>
             LET all == Code(build_opcodes)
                 kept == Code(opcodes')
                 removed == SubSeq(all, Len(kept) + 1, Len(all))
             IN  /\ Len(kept) <= Len(all)
                 /\ kept = SubSeq(all, 1, Len(kept))
                 /\ removed # <<>> => kept[Len(kept)] = "STOP" /\ NoJumpdest(removed)
                 /\ \A j \in 1 .. Len(all) : all[j] = "JUMPDEST" => j <= Len(kept)
                 /\ \A k \in 1 .. (Len(kept) - 1) :
                       kept[k] = "STOP" =>
                          ~NoJumpdest(SubSeq(kept, k + 1, Len(kept)))
       /\ (bstage \in {"first", "loop"} /\ EntriesRead' = EntriesRead + 1) =>
             LET e == builtPcMap'[cur_pc']
             IN  /\ e.op = opcodes[1]
                 /\ e.value # Absent => e.value = opcodes[2]
                 /\ opcodes' = SubSeq(opcodes, IF e.value = Absent THEN 2 ELSE 3,
                                      Len(opcodes))]_vars

\* reached for C18: the pcMap is built for a stream that has a STOP before
\* its last JUMPDEST; the LOG1 after a later STOP was trimmed away and that
\* STOP is the one token left
C18_Witness ==
    /\ bstage = "built"
    /\ \E k, j \in 1 .. Len(build_opcodes) :
          k < j /\ build_opcodes[k] = "STOP" /\ build_opcodes[j] = "JUMPDEST"
    /\ build_opcodes[Len(build_opcodes) - 1] = "LOG1"
    /\ opcodes = <<"STOP">>


----------------------------------------------------------------------------
(***************************************************************************)
(* _isolate_lines (brownie/project/compiler.py), for a build whose pcMap   *)
(* entries all lie in one source file P, so line_map[P] is the one list.   *)
(*                                                                         *)
(*   - the source file is a sequence of characters: ";" is the statement   *)
(*     separator, "p" stands for the word " public ", "x" for the rest;    *)
(*   - a unit is _base() without 'path': start, stop, pc (a set) and jump  *)
(*     (NoJump for False, else the pc of the JUMPI);                       *)
(*   - every pcMap entry with a path has an offset, and a JUMPI is never   *)
(*     the last instruction.                                               *)
(***************************************************************************)
SourceLen == 3       \* characters of the source file

NoAnchor == -1       \* next() of lines 258-262 raised StopIteration

\* lines 322-323: sources.get(op['path'])[op['offset'][0]:op['offset'][1]]
GetSource(text, op) == SubSeq(text, op.offset[1] + 1, op.offset[2])

\* `ch in s` for the one-character strings of the modelled text
Contains(s, ch) == \E k \in 1 .. Len(s) : s[k] = ch

\* lines 326-333
Base(pc, op) == [start |-> op.offset[1], stop |-> op.offset[2], pc |-> {pc}, jump |-> NoJump]

Lowest(S) == CHOOSE k \in S : \A k2 \in S : k <= k2

\* lines 258-262 with range(i - 1, i - 5, -1): the nearest qualifying pc among
\* the four in front of the JUMPI at jpc
AnchorNearest(pm, jpc) ==
    LET found == {x \in (jpc - 4) .. (jpc - 1) :
                     /\ x \in DOMAIN pm
                     /\ pm[x].path # Absent
                     /\ pm[x].op # "JUMPDEST"
                     /\ pm[x].offset # pm[jpc].offset}
    IN  IF found = {} THEN NoAnchor
        ELSE CHOOSE x \in found : \A x2 \in found : x2 <= x

\* lines 258-262: the first x of range(i - 4, 0, -1) that qualifies, for the
\* JUMPI at jpc
Anchor(pm, jpc) ==
    LET found == {x \in 1 .. (jpc - 4) :
                     /\ x \in DOMAIN pm
                     /\ pm[x].path # Absent
                     /\ pm[x].op # "JUMPDEST"
                     /\ pm[x].offset # pm[jpc].offset}
    IN  IF found = {} THEN NoAnchor
        ELSE CHOOSE x \in found : \A x2 \in found : x2 <= x

\* lines 248-266: the loop over the JUMPI pcs todo, in pc order
RECURSIVE FindJumpis(_, _, _, _)
FindJumpis(pm, text, todo, lm) ==
    IF todo = {} THEN lm
    ELSE LET jpc == Lowest(todo)
             rest == todo \ {jpc}
             pc == Anchor(pm, jpc)
         IN  IF pm[jpc + 1].op = "INVALID" \/ Contains(GetSource(text, pm[jpc]), "p")
             THEN FindJumpis(pm, text, rest, lm)                              \* 253-254
             ELSE IF pc = NoAnchor THEN FindJumpis(pm, text, rest, lm)        \* 263-264
             ELSE FindJumpis(pm, text, rest,
                             Append(lm, [Base(pc, pm[pc]) EXCEPT !.jump = jpc])) \* 265-266

\* lines 276-290: the opcode op at pc is put into the list lm
PlaceOpcode(lm, pc, op) ==
    LET found == {k \in 1 .. Len(lm) :
                     lm[k].start <= op.offset[1] /\ op.offset[1] < lm[k].stop}
        k == Lowest(found)
    IN  IF found = {} THEN Append(lm, Base(pc, op))                           \* 282-284
        ELSE IF op.offset[2] > lm[k].stop
            THEN IF lm[k].jump # NoJump THEN lm                               \* 287-288
                 ELSE [lm EXCEPT ![k].stop = op.offset[2],
                                 ![k].pc = @ \cup {pc}]                       \* 289-290
        ELSE [lm EXCEPT ![k].pc = @ \cup {pc}]                                \* 290

\* lines 269-290: the loop over the pcs todo, in pc order
RECURSIVE AnalyzeOpcodes(_, _, _, _)
AnalyzeOpcodes(pm, text, todo, lm) ==
    IF todo = {} THEN lm
    ELSE LET pc == Lowest(todo)
             rest == todo \ {pc}
         IN  IF Contains(GetSource(text, pm[pc]), ";")
             THEN AnalyzeOpcodes(pm, text, rest, lm)                          \* 271-272
             ELSE AnalyzeOpcodes(pm, text, rest, PlaceOpcode(lm, pc, pm[pc]))

\* the sort key of lines 294-297 (one path): (start, stop)
KeyLeq(u, v) == u.start < v.start \/ (u.start = v.start /\ u.stop <= v.stop)

Remove(s, k) == SubSeq(s, 1, k - 1) \o SubSeq(s, k + 1, Len(s))

\* lines 294-297: sorted() is stable, so u goes behind the units it ties with
InsertUnit(s, u) ==
    LET n == Cardinality({k \in 1 .. Len(s) : KeyLeq(s[k], u)})
    IN  SubSeq(s, 1, n) \o <<u>> \o SubSeq(s, n + 1, Len(s))

RECURSIVE SortUnits(_)
SortUnits(lm) ==
    IF lm = <<>> THEN <<>>
    ELSE InsertUnit(SortUnits(SubSeq(lm, 1, Len(lm) - 1)), lm[Len(lm)])


\* lines 299-318 with the test of line 308 never true: no unit is deleted
\* in front of a JUMPI unit
RECURSIVE MergeLoopKeepAll(_, _)
MergeLoopKeepAll(ln_map, idx) ==
    IF Len(ln_map) <= idx + 1 THEN ln_map
    ELSE LET cur == ln_map[idx + 1]
             nxt == ln_map[idx + 2]
         IN  IF cur.jump # NoJump THEN MergeLoopKeepAll(ln_map, idx + 1)
             ELSE IF nxt.jump # NoJump THEN MergeLoopKeepAll(ln_map, idx + 1)
             ELSE IF cur.stop >= nxt.start
                 THEN MergeLoopKeepAll(
                          Remove([ln_map EXCEPT ![idx + 1].pc = cur.pc \cup nxt.pc,
                                                ![idx + 1].stop = IF cur.stop >= nxt.stop
                                                                  THEN cur.stop ELSE nxt.stop],
                                 idx + 2),
                          idx)
             ELSE MergeLoopKeepAll(ln_map, idx + 1)

\* lines 299-318 with the test of line 313 never true: no two units merged
RECURSIVE MergeLoopNoMerge(_, _)
MergeLoopNoMerge(ln_map, idx) ==
    IF Len(ln_map) <= idx + 1 THEN ln_map
    ELSE LET cur == ln_map[idx + 1]
             nxt == ln_map[idx + 2]
         IN  IF cur.jump # NoJump THEN MergeLoopNoMerge(ln_map, idx + 1)
             ELSE IF nxt.jump # NoJump
                 THEN IF cur.stop > nxt.start
                      THEN MergeLoopNoMerge(Remove(ln_map, idx + 1), idx)
                      ELSE MergeLoopNoMerge(ln_map, idx + 1)
             ELSE MergeLoopNoMerge(ln_map, idx + 1)

\* lines 299-318: the loop over the sorted list, idx being the local i
RECURSIVE MergeLoop(_, _)
MergeLoop(ln_map, idx) ==
    IF Len(ln_map) <= idx + 1 THEN ln_map                                     \* 301-302
    ELSE LET cur == ln_map[idx + 1]
             nxt == ln_map[idx + 2]
         IN  IF cur.jump # NoJump THEN MergeLoop(ln_map, idx + 1)             \* 303-305
             ELSE IF nxt.jump # NoJump                                        \* 307
                 THEN IF cur.stop > nxt.start
                      THEN MergeLoop(Remove(ln_map, idx + 1), idx)            \* 308-309
                      ELSE MergeLoop(ln_map, idx + 1)                         \* 310-311
             ELSE IF cur.stop >= nxt.start                                    \* 313
                 THEN MergeLoop(
                          Remove([ln_map EXCEPT ![idx + 1].pc = cur.pc \cup nxt.pc,
                                                ![idx + 1].stop = IF cur.stop >= nxt.stop
                                                                  THEN cur.stop ELSE nxt.stop],
                                 idx + 2),
                          idx)                                                \* 314-317
             ELSE MergeLoop(ln_map, idx + 1)                                  \* 318

JumpiPcs(pm) == {k \in DOMAIN pm : pm[k].path # Absent /\ pm[k].op = "JUMPI"}
LocatedPcs(pm) == {k \in DOMAIN pm : pm[k].path # Absent}

----------------------------------------------------------------------------
\* lines 244-266: find all the JUMPI opcodes
JumpiPhase ==
    /\ lstage = "jumpis"
    /\ line_map' = FindJumpis(compiled_pcMap, source_text, JumpiPcs(compiled_pcMap), <<>>)
    /\ lstage' = "opcodes"
    /\ UNCHANGED <<compiled_pcMap, source_text, build_coverageMap, pc_coverageIndex>>
    /\ UNCHANGED <<mergeVars, analyzeVars, builderVars>>
    /\ UNCHANGED restVars

\* lines 268-290: analyze all the opcodes
OpcodePhase ==
    /\ lstage = "opcodes"
    /\ line_map' = AnalyzeOpcodes(compiled_pcMap, source_text,
                                  LocatedPcs(compiled_pcMap), line_map)
    /\ lstage' = "merge"
    /\ UNCHANGED <<compiled_pcMap, source_text, build_coverageMap, pc_coverageIndex>>
    /\ UNCHANGED <<mergeVars, analyzeVars, builderVars>>
    /\ UNCHANGED restVars

\* lines 292-319: sort the list, merge the overlaps, return it
MergePhase ==
    /\ lstage = "merge"
    /\ line_map' = MergeLoop(SortUnits(line_map), 0)
    /\ lstage' = "returned"
    /\ UNCHANGED <<compiled_pcMap, source_text, build_coverageMap, pc_coverageIndex>>
    /\ UNCHANGED <<mergeVars, analyzeVars, builderVars>>
    /\ UNCHANGED restVars

(* The builds: a PUSH1 at pc 0 (pc 1 is its operand), two instructions at   *)
(* pcs 2 and 3 that the JUMPIs at 6 and 7 can be anchored to, two           *)
(* instructions without source in between, and one behind.                  *)
Ranges == {<<a, b>> : a \in 0 .. (SourceLen - 1), b \in 1 .. SourceLen} \cap
          {r \in (0 .. SourceLen) \X (0 .. SourceLen) : r[1] < r[2]}
JumpiRanges == {<<0, 1>>, <<SourceLen - 1, SourceLen>>}

Located(op, offset) == BuiltEntry(op, Absent, Absent, "P", offset, NoFn)
Unlocated(op) == BuiltEntry(op, Absent, Absent, Absent, <<>>, NoFn)

Texts == {[k \in 1 .. SourceLen |-> "x"],
          [k \in 1 .. SourceLen |-> IF k = SourceLen THEN ";" ELSE "x"],
          [k \in 1 .. SourceLen |-> IF k = 1 THEN "p" ELSE "x"]}

InitLines ==
    /\ \E r0 \in {<<0, SourceLen>>, <<SourceLen - 1, SourceLen>>},
          r2 \in Ranges, r3 \in Ranges, op3 \in {"ADD", "JUMPDEST"},
          r6 \in JumpiRanges,
          e7 \in {Located("JUMPI", r) : r \in JumpiRanges}
                 \cup {Located("ADD", r) : r \in Ranges}
                 \cup {Unlocated("INVALID")} :
             compiled_pcMap =
                 (0 :> [Located("PUSH1", r0) EXCEPT !.value = "0x80"]) @@
                 (2 :> Located("ADD", r2)) @@
                 (3 :> Located(op3, r3)) @@
                 (4 :> Unlocated("DUP1")) @@
                 (5 :> Unlocated("DUP1")) @@
                 (6 :> Located("JUMPI", r6)) @@
                 (7 :> e7) @@
                 (8 :> Unlocated("JUMPDEST"))
    /\ source_text \in Texts
    /\ line_map = <<>>
    /\ lstage = "jumpis"
    /\ build_coverageMap = <<>>
    /\ pc_coverageIndex = <<>>
    /\ MergeIdle
    /\ AnalyzeIdle
    /\ BuilderIdle
    /\ RestIdle

(***************************************************************************)
(* _generate_coverageMap (lines 206-224) for that build: the one contract  *)
(* K of the file spans the whole text, and its functions are fn_offsets.   *)
(***************************************************************************)
\* sources.is_inside_offset(inner, outer)
IsInsideOffset(inner, outer) ==
    outer[1] <= inner[1] /\ inner[1] <= inner[2] /\ inner[2] <= outer[2]

\* build_json['K']['fn_offsets'] (line 98)
fn_offsets == <<[name |-> "K.f", offset |-> <<0, 2>>],
               [name |-> "K.g", offset |-> <<2, SourceLen>>]>>

\* lines 348-359: the first function of the contract that encloses offset,
\* NoFn for the False of line 359
GetFn(offset) ==
    LET found == {k \in 1 .. Len(fn_offsets) : IsInsideOffset(offset, fn_offsets[k].offset)}
    IN  IF ~IsInsideOffset(offset, <<0, SourceLen>>) \/ found = {} THEN NoFn
        ELSE fn_offsets[Lowest(found)].name

\* lines 217-220: final[path].setdefault(fn, []).append(...)
AppendUnit(final, fn, unit) ==
    LET entry == [jump |-> unit.jump, offset |-> <<unit.start, unit.stop>>]
    IN  IF fn \in DOMAIN final THEN [final EXCEPT ![fn] = Append(@, entry)]
        ELSE final @@ (fn :> <<entry>>)

\* lines 221-222: every pc of the unit gets the index of the unit
SetIndex(index, pcs, idx) ==
    [pc \in DOMAIN index \cup pcs |-> IF pc \in pcs THEN idx ELSE index[pc]]

\* lines 213-222: the loop over the units, state being [final, index]
RECURSIVE MapUnits(_, _)
MapUnits(units, state) ==
    IF units = <<>> THEN state
    ELSE LET unit == Head(units)
             fn == GetFn(<<unit.start, unit.stop>>)
         IN  IF fn = NoFn THEN MapUnits(Tail(units), state)                 \* 215-216
             ELSE LET final == AppendUnit(state.final, fn, unit)
                  IN  MapUnits(Tail(units),
                               [final |-> final,
                                index |-> SetIndex(state.index, unit.pc,
                                                   Len(final[fn]) - 1)])

\* lines 207-223, line_map being what _isolate_lines returned
GenerateCoverageMap ==
    /\ lstage = "returned"
    /\ LET done == MapUnits(line_map, [final |-> <<>>, index |-> <<>>])
       IN  /\ build_coverageMap' = done.final
           /\ pc_coverageIndex' = done.index
    /\ lstage' = "mapped"
    /\ UNCHANGED <<compiled_pcMap, source_text, line_map>>
    /\ UNCHANGED <<mergeVars, analyzeVars, builderVars>>
    /\ UNCHANGED restVars

NextLines == JumpiPhase \/ OpcodePhase \/ MergePhase \/ GenerateCoverageMap

SpecLines == InitLines /\ [][NextLines]_vars


----------------------------------------------------------------------------
(***************************************************************************)
(* Claims about the merge pass of _isolate_lines                           *)
(***************************************************************************)
\* the half-open ranges [start, stop) of two units share a position
Overlap(u, v) == u.start < v.stop /\ v.start < u.stop

BranchAt(lm) == {k \in 1 .. Len(lm) : lm[k].jump # NoJump}
NonBranchAt(lm) == {k \in 1 .. Len(lm) : lm[k].jump = NoJump}

\* C19: after the merge pass any two distinct non-branch units have disjoint
\* source ranges.
C19_NonBranchDisjoint ==
    lstage = "returned" =>
        \A a, b \in NonBranchAt(line_map) :
            a # b => ~Overlap(line_map[a], line_map[b])

\* reached for C19: two non-branch units are returned, and the pass sorted
\* them: the one that comes first was created by the later instruction
C19_Witness ==
    /\ lstage = "returned"
    /\ \E a, b \in NonBranchAt(line_map) :
          /\ a < b
          /\ Lowest(line_map[a].pc) > Lowest(line_map[b].pc)

\* C20 as stated: after the merge pass no two branch units overlap, the
\* earlier of two overlapping ones having been discarded.
C20_BranchUnitsNeverOverlap ==
    lstage = "returned" =>
        \A a, b \in BranchAt(line_map) :
            a # b => ~Overlap(line_map[a], line_map[b])

\* C20 amended: the merge pass leaves every branch unit as it was, whether
\* or not it overlaps another branch unit; the unit it discards is a
\* non-branch unit that reaches past the start of the branch unit next to
\* it in (start, stop) order, so that none such is left.
C20_BranchUnitsKept ==
    [][lstage = "merge" =>
          /\ {line_map'[k] : k \in BranchAt(line_map')}
                = {line_map[k] : k \in BranchAt(line_map)}
          /\ Cardinality(BranchAt(line_map')) = Cardinality(BranchAt(line_map))
          /\ \A k \in 1 .. (Len(line_map') - 1) :
                (k \in NonBranchAt(line_map') /\ k + 1 \in BranchAt(line_map'))
                   => line_map'[k].stop <= line_map'[k + 1].start]_vars

\* reached for C20: two overlapping branch units are both returned, and a
\* non-branch unit was discarded: an instruction that the opcode phase put
\* into a unit begins in no returned unit
C20_Witness ==
    /\ lstage = "returned"
    /\ \E a, b \in BranchAt(line_map) : a # b /\ Overlap(line_map[a], line_map[b])
    /\ \E pc \in LocatedPcs(compiled_pcMap) :
          /\ ~Contains(GetSource(source_text, compiled_pcMap[pc]), ";")
          /\ \A k \in 1 .. Len(line_map) :
                ~(line_map[k].start <= compiled_pcMap[pc].offset[1]
                  /\ compiled_pcMap[pc].offset[1] < line_map[k].stop)


----------------------------------------------------------------------------
(***************************************************************************)
(* Claims about the JUMPI phase of _isolate_lines                          *)
(***************************************************************************)
\* the JUMPIs that lines 253-254 do not skip
AnchoredJumpis(pm, text) ==
    {j \in JumpiPcs(pm) :
        pm[j + 1].op # "INVALID" /\ ~Contains(GetSource(text, pm[j]), "p")}

\* line 259: what makes x an anchor of the JUMPI at jpc
Qualifies(pm, x, jpc) ==
    /\ x \in DOMAIN pm
    /\ pm[x].path # Absent
    /\ pm[x].op # "JUMPDEST"
    /\ pm[x].offset # pm[jpc].offset

\* the units of lm made for the JUMPI at jpc
UnitsOf(lm, jpc) == {k \in 1 .. Len(lm) : lm[k].jump = jpc}

\* lm has, for the JUMPI at jpc, one unit anchored at the highest pc of
\* candidates, or none if there is no candidate
AnchoredAt(pm, lm, jpc, candidates) ==
    IF candidates = {} THEN UnitsOf(lm, jpc) = {}
    ELSE LET x == CHOOSE x1 \in candidates : \A x2 \in candidates : x2 <= x1
         IN  /\ Cardinality(UnitsOf(lm, jpc)) = 1
             /\ \A k \in UnitsOf(lm, jpc) :
                   /\ lm[k].pc = {x}
                   /\ lm[k].start = pm[x].offset[1]
                   /\ lm[k].stop = pm[x].offset[2]

----------------------------------------------------------------------------
(***************************************************************************)
(* Claims about _generate_coverageMap                                      *)
(***************************************************************************)
\* the units of lm that line 215 does not skip
StoredAt(lm) == {n \in 1 .. Len(lm) : GetFn(<<lm[n].start, lm[n].stop>>) # NoFn}

\* the index in coverageMap[path][fn] at which unit n of lm is stored
StoredIndex(lm, n) ==
    Cardinality({m \in StoredAt(lm) :
                    /\ m < n
                    /\ GetFn(<<lm[m].start, lm[m].stop>>)
                          = GetFn(<<lm[n].start, lm[n].stop>>)})

\* C22: after _generate_coverageMap every pc in the pc set of the unit stored
\* at index k has coverageIndex k.
C22_BackReferencesConsistent ==
    lstage = "mapped" =>
        \A n \in StoredAt(line_map) :
            /\ build_coverageMap[GetFn(<<line_map[n].start, line_map[n].stop>>)]
                                [StoredIndex(line_map, n) + 1].jump = line_map[n].jump
            /\ \A pc \in line_map[n].pc :
                  /\ pc \in DOMAIN pc_coverageIndex
                  /\ pc_coverageIndex[pc] = StoredIndex(line_map, n)


----------------------------------------------------------------------------
(***************************************************************************)
(* Claims about the whole of _isolate_lines                                *)
(***************************************************************************)
\* an instruction with source that the opcode phase did not skip begins in
\* no unit of lm: the unit it was put into has been discarded
Discarded(pm, text, lm) ==
    {pc \in LocatedPcs(pm) :
        /\ ~Contains(GetSource(text, pm[pc]), ";")
        /\ \A k \in 1 .. Len(lm) :
              ~(lm[k].start <= pm[pc].offset[1] /\ pm[pc].offset[1] < lm[k].stop)}

\* C26: after _isolate_lines no non-branch unit overlaps a branch unit,
\* whichever of the two sorts first, and every branch unit still has the
\* source range of its anchor.
C26_NoUnitOverlapsBranch ==
    lstage = "returned" =>
        /\ \A a \in NonBranchAt(line_map), b \in BranchAt(line_map) :
              ~Overlap(line_map[a], line_map[b])
        /\ \A b \in BranchAt(line_map) :
              \E x \in line_map[b].pc :
                  /\ Qualifies(compiled_pcMap, x, line_map[b].jump)
                  /\ x <= line_map[b].jump - 4
                  /\ compiled_pcMap[x].offset = <<line_map[b].start, line_map[b].stop>>

\* reached for C26: a non-branch unit in front of a branch unit was
\* discarded, and another non-branch unit is returned behind that branch unit
C26_Witness ==
    /\ lstage = "returned"
    /\ Discarded(compiled_pcMap, source_text, line_map) # {}
    /\ \E b \in BranchAt(line_map), a \in NonBranchAt(line_map) : b < a


----------------------------------------------------------------------------
(***************************************************************************)
(* Evaluations that are built by analyze_coverage or put together by       *)
(* merge_coverage: a run is one call of either function.                   *)
(***************************************************************************)
InitCoverage == InitAnalyze \/ InitMerge

NextCoverage == NextAnalyze \/ NextMerge

SpecCoverage == InitCoverage /\ [][NextCoverage]_vars

\* tx, true and false of an entry that has them are pairwise disjoint
PairwiseDisjoint(e) ==
    e.tx \cap e.true = {} /\ e.tx \cap e.false = {} /\ e.true \cap e.false = {}

\* the evaluation of analyze_coverage, while it is built and when returned
EntriesDisjoint(ce) ==
    \A name \in DOMAIN ce : \A fn \in DOMAIN ce[name] : PairwiseDisjoint(ce[name][fn])

\* direction d of branch unit idx of fn is credited in one of the files
CreditedInFiles(files, n, fn, idx, d) ==
    \E k \in 1 .. Len(files) :
        /\ HasEntry(files[k], n, fn)
        /\ files[k].coverage[n][fn].sets
        /\ idx \in files[k].coverage[n][fn][d] \cup files[k].coverage[n][fn].tx

\* a step of the trace loop puts a branch unit into the hit set exactly when
\* it credits the direction that was missing
HitWhenBothCredited(before, after, idx) ==
    /\ idx \in before.tx => idx \in after.tx
    /\ (idx \in after.tx /\ idx \notin before.tx) <=>
          /\ DirectionsCredited(before, idx) \in {{"true"}, {"false"}}
          /\ DirectionsCredited(after, idx) = {"true", "false"}
    /\ DirectionsCredited(before, idx) \subseteq DirectionsCredited(after, idx)

\* C27: in every entry that has its sets, tx, true and false are pairwise
\* disjoint, and a branch unit is in tx exactly when both of its directions
\* have been credited, in one run of analyze_coverage or in the evaluations
\* merged by merge_coverage.
C27_SetsDisjointHitIffBoth ==
    /\ [](EntriesDisjoint(coverage_eval)
          /\ (mpc = "returned" => EntriesDisjoint(merged_eval)))
    /\ [][apc = "trace" =>
             \A name \in DOMAIN coverage_eval', fn \in DOMAIN coverage_map :
                 \A idx \in BranchUnits(coverage_map[fn]) :
                     HitWhenBothCredited(SetsOf(coverage_eval, name, fn),
                                         SetsOf(coverage_eval', name, fn), idx)]_vars
    /\ [](mpc = "returned" =>
             \A n \in DOMAIN merged_eval : \A fn \in DOMAIN merged_eval[n] :
                 merged_eval[n][fn].sets =>
                     \A idx \in BranchUnits(coverage_map[fn]) :
                         idx \in merged_eval[n][fn].tx <=>
                             \A d \in {"true", "false"} :
                                 CreditedInFiles(coverage_files, n, fn, idx, d))

\* reached for C27: two evaluations of K.f were merged, one with the branch
\* taken, the other with it not taken; the merged entry has the branch unit
\* in tx and neither in true nor in false
C27_Witness ==
    /\ mpc = "returned"
    /\ NFiles = 2
    /\ \A k \in 1 .. 2 : HasEntry(coverage_files[k], "K", "K.f")
    /\ coverage_files[1].coverage["K"]["K.f"].true = {0}
    /\ coverage_files[2].coverage["K"]["K.f"].false = {0}
    /\ merged_eval["K"]["K.f"].sets
    /\ merged_eval["K"]["K.f"].tx = {0}
    /\ merged_eval["K"]["K.f"].true = {}
    /\ merged_eval["K"]["K.f"].false = {}


----------------------------------------------------------------------------
(***************************************************************************)
(* analyze_coverage (coverage.py 12-85) as one call: history is a list of  *)
(* transactions with a receiver, each given by its trace, which runs in    *)
(* function K.f of the build: the anchor (pc 2), the JUMPI (pc 7), and the *)
(* two statements behind it (pcs 8 and 9).                                 *)
(***************************************************************************)
HistoryLen == MaxTx

HistoryPcs == {2, 7, 8, 9}

HistoryTraces ==
    UNION {[1 .. n -> {SampleAt(pc) : pc \in HistoryPcs}] : n \in 1 .. MaxTrace}

\* lines 21-63: the loop over the trace tr, from its k-th sample on
RECURSIVE AnalyzeTrace(_, _, _)
AnalyzeTrace(out, tr, k) ==
    IF out.exc # "none" \/ k > Len(tr) THEN out
    ELSE AnalyzeTrace(ProcessSample(out.coverage_eval, out.tx_eval, tr[k],
                                    IF k < Len(tr) THEN tr[k + 1] ELSE EndOfTrace),
                      tr, k + 1)

\* lines 17-63: the loop over history, from its k-th transaction on
RECURSIVE AnalyzeFrom(_, _, _)
AnalyzeFrom(out, hist, k) ==
    IF out.exc # "none" \/ k > Len(hist) THEN out
    ELSE AnalyzeFrom(AnalyzeTrace(Outcome("none", out.coverage_eval,
                                          NewTxEval(out.tx_eval)), hist[k], 1),
                     hist, k + 1)

\* lines 12-85: what the call raises or returns
analyze_coverage(hist) ==
    LET out == AnalyzeFrom(Outcome("none", <<>>, <<>>), hist, 1)
    IN  IF out.exc # "none" THEN [exc |-> out.exc, coverage_eval |-> <<>>]
        ELSE [exc |-> "none", coverage_eval |-> Evaluated(out.coverage_eval)]

----------------------------------------------------------------------------
(* The call analyze_coverage(tx_history) *)
AnalyzeHistory ==
    /\ DOMAIN analysis = {}
    /\ analysis' = analyze_coverage(tx_history)
    /\ UNCHANGED tx_history
    /\ UNCHANGED <<mergeVars, analyzeVars, builderVars, linesVars>>
    /\ UNCHANGED <<chainVars, cacheVars, linkVars>>

InitHistory ==
    /\ tx_history \in UNION {[1 .. n -> HistoryTraces] : n \in 1 .. HistoryLen}
    /\ analysis = <<>>
    /\ MergeIdle
    /\ AnalyzeIdle
    /\ BuilderIdle
    /\ LinesIdle
    /\ ChainIdle
    /\ CacheIdle
    /\ LinkIdle

NextHistory == AnalyzeHistory

SpecHistory == InitHistory /\ [][NextHistory]_vars

----------------------------------------------------------------------------
(***************************************************************************)
(* Claims about analyze_coverage as a function of the history              *)
(***************************************************************************)
\* the executed weight of fn in what a call returned
WeightIn(result, fn) ==
    IF "K" \notin DOMAIN result.coverage_eval THEN 0
    ELSE LET e == result.coverage_eval["K"][fn]
         IN  IF e.sets THEN ExecutedWeight(coverage_map[fn], e)
             ELSE IF e.pct = PctScale THEN TotalWeight(coverage_map[fn])
             ELSE 0

\* C28: analyze_coverage gives the same result for every order of the
\* transactions of the history, and the history with one more transaction
\* gives every function at least the executed weight it had.
C28_OrderIndependentMonotone ==
    DOMAIN analysis # {} =>
        /\ \A p \in Orderings(Len(tx_history)) :
              analyze_coverage(Permuted(tx_history, p)) = analysis
        /\ LET shorter == analyze_coverage(SubSeq(tx_history, 1, Len(tx_history) - 1))
           IN  \A fn \in DOMAIN coverage_map :
                   (shorter.exc = "none" /\ analysis.exc = "none")
                      => WeightIn(shorter, fn) <= WeightIn(analysis, fn)


----------------------------------------------------------------------------
(***************************************************************************)
(* format_link_references (brownie/project/compiler.py 336-345)            *)
(*                                                                         *)
(* A string is the sequence of its characters.  evm.bytecode is            *)
(* evm['bytecode']['object']; evm.references is the list of (n, start)     *)
(* that lines 338-339 draw from evm['bytecode']['linkReferences'], in the  *)
(* order of the dicts.  As solc writes them, every reference is 20 bytes   *)
(* inside the bytecode and no two overlap.                                 *)
(***************************************************************************)
MaxPad == 2          \* bytes in front of, between and behind the references

NameWidth == 36      \* the width of {:_<36} and of n[:36]
RegionLen == 40      \* characters of bytecode[loc:loc+40]

HexDigits == <<"0", "1", "2", "3", "4", "5", "6", "7",
               "8", "9", "a", "b", "c", "d", "e", "f">>

Least(a, b) == IF a <= b THEN a ELSE b

\* s[:k] and s[k:] of Python, for k >= 0
UpTo(s, k) == SubSeq(s, 1, Least(k, Len(s)))
From(s, k) == SubSeq(s, Least(k, Len(s)) + 1, Len(s))

Underscores(n) == [k \in 1 .. n |-> "_"]

\* "__{:_<36}__" with the name neither cut nor padded
MarkerOfWholeName(n) == Underscores(2) \o n \o Underscores(2)

\* "__{:_<36}__".format(n[:36]): the format pads, it does not cut
Marker(n) ==
    LET cut == UpTo(n, NameWidth)
    IN  Underscores(2) \o cut \o Underscores(NameWidth - Len(cut)) \o Underscores(2)

\* lines 340-344: one iteration of the loop
Replace(bytecode, ref) ==
    LET loc == ref.start * 2
    IN  UpTo(bytecode, loc) \o Marker(ref.name) \o From(bytecode, loc + RegionLen)

\* lines 339-345: the loop over the references
RECURSIVE ReplaceAll(_, _)
ReplaceAll(bytecode, refs) ==
    IF refs = <<>> THEN bytecode
    ELSE ReplaceAll(Replace(bytecode, Head(refs)), Tail(refs))

format_link_references(e) == ReplaceAll(e.bytecode, e.references)

----------------------------------------------------------------------------
\* the names of the libraries: the one of the test, and names of 35, 36 and
\* 37 characters
LibNames ==
    {<<"T", "e", "s", "t", "L", "i", "b">>} \cup
    {[k \in 1 .. n |-> IF k = 1 THEN "L" ELSE "x"] : n \in (NameWidth - 1) .. (NameWidth + 1)}

\* bytecode objects of nbytes bytes
Bytecode(nbytes) == [k \in 1 .. 2 * nbytes |-> HexDigits[(k % 16) + 1]]

\* what solc returns for a contract that uses one or two libraries
EvmOutputs ==
    {[bytecode |-> Bytecode(before + 20 + behind),
      references |-> <<[name |-> n, start |-> before]>>] :
        before \in 0 .. MaxPad, behind \in 0 .. MaxPad, n \in LibNames}
    \cup
    {[bytecode |-> Bytecode(before + 20 + between + 20 + behind),
      references |-> IF swapped
                     THEN <<[name |-> n2, start |-> before + 20 + between],
                            [name |-> n1, start |-> before]>>
                     ELSE <<[name |-> n1, start |-> before],
                            [name |-> n2, start |-> before + 20 + between]>>] :
        before \in 0 .. MaxPad, between \in 0 .. MaxPad, behind \in {0, MaxPad},
        n1 \in LibNames, n2 \in LibNames, swapped \in BOOLEAN}

(* The call format_link_references(evm) *)
FormatLinkReferences ==
    /\ linked = <<>>
    /\ linked' = format_link_references(evm)
    /\ UNCHANGED evm
    /\ UNCHANGED <<mergeVars, analyzeVars, builderVars, linesVars>>
    /\ UNCHANGED <<historyVars, chainVars, cacheVars>>

InitLink ==
    /\ evm \in EvmOutputs
    /\ linked = <<>>
    /\ MergeIdle
    /\ AnalyzeIdle
    /\ BuilderIdle
    /\ LinesIdle
    /\ HistoryIdle
    /\ ChainIdle
    /\ CacheIdle

NextLink == FormatLinkReferences

SpecLink == InitLink /\ [][NextLink]_vars

----------------------------------------------------------------------------
(***************************************************************************)
(* Claims about format_link_references                                     *)
(***************************************************************************)
\* sub occurs in s
HasSubstring(s, sub) ==
    \E k \in 0 .. (Len(s) - Len(sub)) : SubSeq(s, k + 1, k + Len(sub)) = sub

\* the positions (1-based) of the region of a reference
Region(ref) == (2 * ref.start + 1) .. (2 * ref.start + RegionLen)

\* the marker as the claim spells it: '__', n cut to 36 characters and
\* padded with '_' to 36, '__'
StatedMarker(n) ==
    Underscores(2)
    \o [k \in 1 .. NameWidth |-> IF k <= Len(n) THEN n[k] ELSE "_"]
    \o Underscores(2)

\* the frame of the call: every region holds its marker, the length and the
\* characters outside the regions are those of the bytecode
MarkersInPlace ==
    /\ Len(linked) = Len(evm.bytecode)
    /\ \A r \in 1 .. Len(evm.references) :
          LET ref == evm.references[r]
          IN  SubSeq(linked, 2 * ref.start + 1, 2 * ref.start + RegionLen)
                 = StatedMarker(ref.name)
    /\ \A k \in 1 .. Len(evm.bytecode) :
          (\A r \in 1 .. Len(evm.references) : k \notin Region(evm.references[r]))
             => linked[k] = evm.bytecode[k]

\* C25 as stated: every region holds the marker of its library, the rest of
\* the bytecode and its length are unchanged, and '__n__' occurs in the
\* result for every library n.
C25_MarkersReplaceRegions ==
    linked # <<>> =>
        /\ MarkersInPlace
        /\ \A r \in 1 .. Len(evm.references) :
              HasSubstring(linked, MarkerOfWholeName(evm.references[r].name))

\* C25 amended: every region holds the marker of its library, the rest of
\* the bytecode and its length are unchanged, and the result contains '__'
\* followed by the first 36 characters of n: '__n__' occurs in it when n has
\* at most 36 characters, and does not when n is longer and no other library
\* is linked.
C25_MarkersHoldCutName ==
    linked # <<>> =>
        /\ MarkersInPlace
        /\ \A r \in 1 .. Len(evm.references) :
              LET n == evm.references[r].name
              IN  /\ HasSubstring(linked, Underscores(2) \o UpTo(n, NameWidth))
                  /\ Len(n) <= NameWidth
                        => HasSubstring(linked, MarkerOfWholeName(n))
                  /\ (Len(n) > NameWidth /\ Len(evm.references) = 1)
                        => ~HasSubstring(linked, MarkerOfWholeName(n))

\* reached for C25: two libraries were linked, TestLib and one with a name of
\* 37 characters, with bytes in front of, between and behind the regions
C25_Witness ==
    /\ linked # <<>>
    /\ Len(evm.references) = 2
    /\ evm.references[1].name = <<"T", "e", "s", "t", "L", "i", "b">>
    /\ Len(evm.references[2].name) = NameWidth + 1
    /\ evm.references[1].start > 0
    /\ evm.references[2].start > evm.references[1].start + 20
    /\ Len(linked) > 2 * evm.references[2].start + RegionLen


----------------------------------------------------------------------------
(***************************************************************************)
(* Chain (brownie/network/state.py) on a connected development network.    *)
(*                                                                         *)
(*   - rpc is the test RPC: the block height, the snapshots it still has   *)
(*     (id -> height at the time of evm_snapshot), the id the next         *)
(*     evm_snapshot returns, the time offset, and whether evm_revert was   *)
(*     ever given an id it no longer has.  evm_revert(id) restores the     *)
(*     height and drops the snapshot id and every later one;               *)
(*   - an action the user sends (fn, args, kwargs) is a name; sending it   *)
(*     mines one block and starts a thread on _add_to_undo_buffer;         *)
(*   - calls.pending are those threads that have not yet taken             *)
(*     _undo_lock; the bodies under the lock are single steps, so the      *)
(*     lock itself needs no variable;                                      *)
(*   - calls.last records a redo that was the latest call of the user.     *)
(***************************************************************************)
MaxIds == 6          \* snapshot ids the RPC hands out
MaxHeight == 3       \* blocks mined
MaxPending == 2      \* undo threads waiting for the lock

NoId == 0            \* None as _snapshot_id, _reset_id, _current_id

TxActions == {"A", "B"}

\* evm_snapshot: the node as it is afterwards; the id returned is r.next
EvmSnapshot(r) == [r EXCEPT !.snaps = @ @@ (r.next :> r.height), !.next = @ + 1]

\* evm_revert(id) for an id the node has
EvmRevert(r, id) ==
    [r EXCEPT !.height = r.snaps[id],
              !.snaps = [k \in {j \in DOMAIN r.snaps : j < id} |-> r.snaps[k]]]

Reverted(e, r, id, offset) == [exc |-> e, rpc |-> r, id |-> id, time_offset |-> offset]

\* lines 179-187, _revert(id): refused tells whether the node answers an id
\* it does not have with an error (else with a result, reverting nothing)
ChainRevert(c, r, id, refused) ==
    IF r.height = 0 /\ c.time_offset = 0
    THEN Reverted("none", EvmSnapshot(r), r.next, c.time_offset)               \* 180-182
    ELSE IF id \in DOMAIN r.snaps
        THEN Reverted("none", EvmSnapshot(EvmRevert(r, id)), r.next, r.offset) \* 183-187
    ELSE IF refused
        THEN Reverted("RPCRequestError", [r EXCEPT !.stale = TRUE], NoId, c.time_offset)
    ELSE Reverted("none", EvmSnapshot([r EXCEPT !.stale = TRUE]), r.next, r.offset)

\* calls.last when the latest call of the user was not redo
NoRedo == [num |-> 0, undo_buffer |-> <<>>, redo_buffer |-> <<>>, executed |-> <<>>]

InOrder(s) == s

\* lines 221-223: the entries in the order in which pop() yields them
Reversed(s) == [k \in 1 .. Len(s) |-> s[Len(s) + 1 - k]]

CanSnapshot == rpc.next <= MaxIds

ChainFrame ==
    /\ UNCHANGED <<mergeVars, analyzeVars, builderVars, linesVars>>
    /\ UNCHANGED <<historyVars, cacheVars, linkVars>>

----------------------------------------------------------------------------
\* the user sends the action fn: its transaction is mined and confirmed, and
\* the thread that will call _add_to_undo_buffer(tx, fn, args, kwargs) starts
Transact(fn) ==
    /\ rpc.height < MaxHeight
    /\ Len(calls.pending) < MaxPending
    /\ rpc' = [rpc EXCEPT !.height = @ + 1]
    /\ calls' = [pending |-> Append(calls.pending, fn), last |-> NoRedo]
    /\ UNCHANGED chain
    /\ ChainFrame

\* lines 189-197: one of the waiting threads takes the lock
AddToUndoBuffer(k) ==
    /\ k \in 1 .. Len(calls.pending)
    /\ CanSnapshot
    /\ LET fn == calls.pending[k]
           top == Len(chain.redo_buffer)
       IN  chain' = [chain EXCEPT
                !.undo_buffer = Append(@, [id |-> chain.current_id, fn |-> fn]),   \* 192
                !.redo_buffer = IF top > 0 /\ chain.redo_buffer[top] = fn
                                THEN SubSeq(@, 1, top - 1)                        \* 193-194
                                ELSE <<>>,                                        \* 195-196
                !.current_id = rpc.next]                                          \* 197
    /\ rpc' = EvmSnapshot(rpc)
    /\ calls' = [calls EXCEPT !.pending = Remove(@, k)]
    /\ ChainFrame

\* lines 199-226, for the num that raise no ValueError
Undo(num, refused) ==
    /\ num \in 1 .. Len(chain.undo_buffer)
    /\ CanSnapshot
    /\ LET n == Len(chain.undo_buffer)
           popped == Reversed(SubSeq(chain.undo_buffer, n - num + 1, n))          \* 221-223
           id_ == popped[num].id
           rev == ChainRevert(chain, rpc, id_, refused)
           c1 == [chain EXCEPT
                     !.undo_buffer = SubSeq(@, 1, n - num),
                     !.redo_buffer = @ \o [k \in 1 .. num |-> popped[k].fn]]
       IN  /\ rpc' = rev.rpc
           /\ chain' = IF rev.exc # "none" THEN c1
                       ELSE [c1 EXCEPT !.current_id = rev.id,                     \* 225
                                       !.time_offset = rev.time_offset]
    /\ calls' = [calls EXCEPT !.last = NoRedo]
    /\ ChainFrame

\* lines 228-254, for the num that raise no ValueError: the lock is held
\* throughout, so no thread of the actions sent gets to _add_to_undo_buffer
\* before the loop has ended
Redo(num) ==
    /\ num \in 1 .. Len(chain.redo_buffer)
    /\ rpc.height + num <= MaxHeight
    /\ Len(calls.pending) + num <= MaxPending
    /\ LET fn == chain.redo_buffer[Len(chain.redo_buffer)]                        \* 250
       IN  /\ rpc' = [rpc EXCEPT !.height = @ + num]                              \* 251
           /\ calls' = [pending |-> calls.pending \o [k \in 1 .. num |-> fn],
                        last |-> [num |-> num, undo_buffer |-> chain.undo_buffer,
                                  redo_buffer |-> chain.redo_buffer,
                                  executed |-> [k \in 1 .. num |-> fn]]]
    /\ UNCHANGED chain
    /\ ChainFrame

\* lines 261-275
Sleep(seconds) ==
    /\ seconds > 0 => CanSnapshot
    /\ LET offset == IF seconds > 0 THEN 1 ELSE rpc.offset
       IN  /\ rpc' = IF seconds > 0 THEN EvmSnapshot([rpc EXCEPT !.offset = offset])
                     ELSE rpc
           /\ chain' = IF seconds > 0
                       THEN [chain EXCEPT !.time_offset = offset,
                                          !.redo_buffer = <<>>,
                                          !.current_id = rpc.next]
                       ELSE [chain EXCEPT !.time_offset = offset]
    /\ calls' = [calls EXCEPT !.last = NoRedo]
    /\ ChainFrame

\* lines 277-298, mine(1)
Mine ==
    /\ rpc.height < MaxHeight
    /\ CanSnapshot
    /\ rpc' = EvmSnapshot([rpc EXCEPT !.height = @ + 1])
    /\ chain' = [chain EXCEPT !.redo_buffer = <<>>, !.current_id = rpc.next]
    /\ calls' = [calls EXCEPT !.last = NoRedo]
    /\ ChainFrame

\* lines 300-308
Snapshot ==
    /\ CanSnapshot
    /\ rpc' = EvmSnapshot(rpc)
    /\ chain' = [chain EXCEPT !.undo_buffer = <<>>, !.redo_buffer = <<>>,
                              !.snapshot_id = rpc.next, !.current_id = rpc.next]
    /\ calls' = [calls EXCEPT !.last = NoRedo]
    /\ ChainFrame

\* lines 310-326, with a snapshot set
Revert(refused) ==
    /\ chain.snapshot_id # NoId
    /\ CanSnapshot
    /\ LET rev == ChainRevert(chain, rpc, chain.snapshot_id, refused)
           c1 == [chain EXCEPT !.undo_buffer = <<>>, !.redo_buffer = <<>>]        \* 323-324
       IN  /\ rpc' = rev.rpc
           /\ chain' = IF rev.exc # "none" THEN c1
                       ELSE [c1 EXCEPT !.snapshot_id = rev.id, !.current_id = rev.id,
                                       !.time_offset = rev.time_offset]           \* 325
    /\ calls' = [calls EXCEPT !.last = NoRedo]
    /\ ChainFrame

\* lines 328-347, _reset_id being set since the network is connected
Reset(refused) ==
    /\ CanSnapshot
    /\ LET rev == ChainRevert(chain, rpc, chain.reset_id, refused)
           c1 == [chain EXCEPT !.snapshot_id = NoId,
                               !.undo_buffer = <<>>, !.redo_buffer = <<>>]        \* 339-341
       IN  /\ rpc' = rev.rpc
           /\ chain' = IF rev.exc # "none" THEN c1
                       ELSE [c1 EXCEPT !.reset_id = rev.id, !.current_id = rev.id,
                                       !.time_offset = rev.time_offset]           \* 346
    /\ calls' = [calls EXCEPT !.last = NoRedo]
    /\ ChainFrame

\* _network_connected (lines 349-351) on a fresh node: reset() took the
\* first snapshot (lines 342-344)
InitChain ==
    /\ rpc = [height |-> 0, snaps |-> (1 :> 0), next |-> 2, offset |-> 0, stale |-> FALSE]
    /\ chain = [snapshot_id |-> NoId, reset_id |-> 1, current_id |-> 1,
                undo_buffer |-> <<>>, redo_buffer |-> <<>>, time_offset |-> 0]
    /\ calls = [pending |-> <<>>,
                last |-> NoRedo]
    /\ MergeIdle
    /\ AnalyzeIdle
    /\ BuilderIdle
    /\ LinesIdle
    /\ HistoryIdle
    /\ CacheIdle
    /\ LinkIdle

NextChain ==
    \/ \E fn \in TxActions : Transact(fn)
    \/ \E k \in 1 .. MaxPending : AddToUndoBuffer(k)
    \/ \E num \in 1 .. MaxHeight, refused \in BOOLEAN : Undo(num, refused)
    \/ \E num \in 1 .. MaxHeight : Redo(num)
    \/ \E seconds \in {0, 1} : Sleep(seconds)
    \/ Mine
    \/ Snapshot
    \/ \E refused \in BOOLEAN : Revert(refused)
    \/ \E refused \in BOOLEAN : Reset(refused)

SpecChain == InitChain /\ [][NextChain]_vars


----------------------------------------------------------------------------
\* C23: Chain.undo(num) with 1 <= num <= length of the undo buffer removes
\* exactly the num most recent entries from the undo buffer, appends their
\* actions to the redo buffer so that the oldest undone action ends on top,
\* brings the node back to the snapshot whose id was recorded with the oldest
\* removed entry, and sets _current_id to the fresh snapshot that _revert
\* took afterwards.
UndoneAsStated(num) ==
    LET n == Len(chain.undo_buffer)
        oldest == chain.undo_buffer[n - num + 1]
    IN  /\ chain'.undo_buffer = SubSeq(chain.undo_buffer, 1, n - num)
        /\ Len(chain'.redo_buffer) = Len(chain.redo_buffer) + num
        /\ \A k \in 1 .. Len(chain.redo_buffer) :
               chain'.redo_buffer[k] = chain.redo_buffer[k]
        /\ \A k \in 1 .. num :
               chain'.redo_buffer[Len(chain.redo_buffer) + k] = chain.undo_buffer[n + 1 - k].fn
        /\ oldest.id \in DOMAIN rpc.snaps
        /\ rpc'.height = rpc.snaps[oldest.id]
        /\ rpc'.stale = rpc.stale
        /\ chain'.current_id = rpc.next
        /\ chain'.current_id \notin DOMAIN rpc.snaps
        /\ chain'.current_id \in DOMAIN rpc'.snaps
        /\ rpc'.snaps[chain'.current_id] = rpc'.height

C23_UndoRevertsToOldest ==
    [][\A num \in 1 .. MaxHeight, refused \in BOOLEAN :
           Undo(num, refused) => UndoneAsStated(num)]_vars

\* two different actions were undone by one undo(2), the older one on top
C23_Witness ==
    /\ DOMAIN chain # {}
    /\ chain.redo_buffer = <<"B", "A">>
    /\ chain.undo_buffer = <<>>
    /\ rpc.height = 0
    /\ chain.current_id = 4

----------------------------------------------------------------------------
\* C24: once the _add_to_undo_buffer threads of a redo(num) with
\* 1 <= num <= length of the redo buffer have run (and no other thread was
\* waiting), redo has executed the num undone actions on top of the redo
\* buffer, each once and in the order in which they were first executed,
\* these are the newest num entries of the undo buffer, and the redo buffer
\* is exactly num entries shorter.
C24_RedoReplaysInOrder ==
    (/\ DOMAIN calls # {}
     /\ calls.last.num > 0
     /\ calls.pending = <<>>
     /\ Len(chain.undo_buffer) = Len(calls.last.undo_buffer) + calls.last.num)
    => LET num == calls.last.num
           before == calls.last.redo_buffer
           m == Len(before)
           n == Len(chain.undo_buffer)
           undone == [k \in 1 .. num |-> before[m + 1 - k]]
       IN  /\ calls.last.executed = undone
           /\ [k \in 1 .. num |-> chain.undo_buffer[n - num + k].fn] = undone
           /\ chain.redo_buffer = SubSeq(before, 1, m - num)

----------------------------------------------------------------------------
\* C29: with an evm_revert(id) that invalidates the snapshot id and every
\* later one, each id the Chain holds (_snapshot_id, _reset_id, the ids in
\* _undo_buffer) is one the node still has, and evm_revert has never been
\* given an id the node no longer has.
C29_HeldIdsValid ==
    DOMAIN chain # {} =>
        /\ chain.snapshot_id # NoId => chain.snapshot_id \in DOMAIN rpc.snaps
        /\ chain.reset_id \in DOMAIN rpc.snaps
        /\ \A k \in 1 .. Len(chain.undo_buffer) :
               chain.undo_buffer[k].id \in DOMAIN rpc.snaps
        /\ ~rpc.stale


----------------------------------------------------------------------------
(***************************************************************************)
(* RequestCachingMiddleware (brownie/network/middlewares/caching.py).      *)
(*                                                                         *)
(*   - a block hash is the number of the block; node.latest is the head    *)
(*     of the chain and node.new_blocks the hashes the block filter has    *)
(*     not yet handed out;                                                 *)
(*   - middleware.block_cache is the OrderedDict as the sequence of its    *)
(*     items [hash, responses], oldest first; a request (method and        *)
(*     param_str) is a name, and the response kept for it records the      *)
(*     hash it was stored under;                                           *)
(*   - middleware.lock is "free" or the name of the thread inside a        *)
(*     `with self.lock` block; block_filter_loop holds it from the query   *)
(*     of the filter to the end of lines 80-86;                            *)
(*   - procs.loop is the position of block_filter_loop, procs.requests     *)
(*     the position of every thread in process_request, procs.served the   *)
(*     latest response returned at line 124 with last_block at that time.  *)
(* The long-term cache (lines 109-118, 135-140) and the methods passed     *)
(* through at lines 102-103 do not touch block_cache and are left out.     *)
(***************************************************************************)
MaxBlocks == 7       \* blocks of the chain
MaxNew == 2          \* blocks waiting in the filter
CacheSize == 5       \* line 84

Threads == {"t1", "t2"}
Requests == {"eth_call"}

Keys(cache) == {cache[k].hash : k \in 1 .. Len(cache)}

Item(cache, hash) == CHOOSE k \in 1 .. Len(cache) : cache[k].hash = hash

Untrimmed(cache) == cache

\* lines 84-86
Trimmed(cache) == IF Len(cache) > CacheSize THEN Tail(cache) ELSE cache

\* line 81, block_cache[hash] = {}: a key that exists keeps its place
Inserted(cache, hash) ==
    IF hash \in Keys(cache)
    THEN [cache EXCEPT ![Item(cache, hash)].responses = <<>>]
    ELSE Append(cache, [hash |-> hash, responses |-> <<>>])

\* line 131, block_cache.setdefault(hash, {})
WithDefault(cache, hash) ==
    IF hash \in Keys(cache) THEN cache
    ELSE Append(cache, [hash |-> hash, responses |-> <<>>])

\* lines 131-132
Stored(cache, hash, request) ==
    LET c == WithDefault(cache, hash)
    IN  [c EXCEPT ![Item(c, hash)].responses = (request :> hash) @@ @]

CacheFrame ==
    /\ UNCHANGED <<mergeVars, analyzeVars, builderVars, linesVars>>
    /\ UNCHANGED <<historyVars, chainVars, linkVars>>

----------------------------------------------------------------------------
\* the network mines a block
NewBlock ==
    /\ node.latest < MaxBlocks
    /\ Len(node.new_blocks) < MaxNew
    /\ node' = [latest |-> node.latest + 1,
                new_blocks |-> Append(node.new_blocks, node.latest + 1)]
    /\ UNCHANGED <<middleware, procs>>
    /\ CacheFrame

\* lines 61-66: idle tells whether the last request was over 60 seconds ago
LoopIdleCheck(idle) ==
    /\ procs.loop = "check"
    /\ middleware.lock = "free"
    /\ middleware' = IF idle THEN [middleware EXCEPT !.block_cache = <<>>]
                     ELSE middleware
    /\ procs' = [procs EXCEPT !.loop = "query"]
    /\ UNCHANGED node
    /\ CacheFrame

\* lines 69-83: the lock is taken, the filter queried, the newest of the
\* new blocks gets an empty item and becomes last_block
LoopQuery ==
    /\ procs.loop = "query"
    /\ middleware.lock = "free"
    /\ LET new_blocks == node.new_blocks
       IN  IF new_blocks # <<>>
           THEN middleware' = [middleware EXCEPT
                    !.lock = "loop",
                    !.block_cache = Inserted(@, new_blocks[Len(new_blocks)]),
                    !.last_block = new_blocks[Len(new_blocks)]]
           ELSE middleware' = [middleware EXCEPT !.lock = "loop"]
    /\ node' = [node EXCEPT !.new_blocks = <<>>]
    /\ procs' = [procs EXCEPT !.loop = "trim"]
    /\ CacheFrame

\* lines 72-78: the filter has expired or web3 has disconnected
LoopQueryFails(connected) ==
    /\ procs.loop = "query"
    /\ middleware.lock = "free"
    /\ procs' = [procs EXCEPT !.loop = IF connected THEN "check" ELSE "returned"]
    /\ node' = IF connected THEN [node EXCEPT !.new_blocks = <<>>] ELSE node
    /\ UNCHANGED middleware
    /\ CacheFrame

\* lines 84-97: the oldest item goes when there are more than five, the
\* lock is released, the thread sleeps
LoopTrim ==
    /\ procs.loop = "trim"
    /\ middleware.lock = "loop"
    /\ middleware' = [middleware EXCEPT !.lock = "free",
                                        !.block_cache = Trimmed(@)]
    /\ procs' = [procs EXCEPT !.loop = "check"]
    /\ UNCHANGED node
    /\ CacheFrame

\* lines 120-126: the first `with self.lock` block of process_request
RequestLookup(t, request) ==
    /\ procs.requests[t] = "none"
    /\ middleware.lock = "free"
    /\ LET cache == middleware.block_cache
           hash == middleware.last_block
           hit == /\ hash \in Keys(cache)
                  /\ request \in DOMAIN cache[Item(cache, hash)].responses
       IN  procs' = IF hit
                    THEN [procs EXCEPT !.served =
                             [response |-> cache[Item(cache, hash)].responses[request],
                              last_block |-> hash]]                       \* 124
                    ELSE [procs EXCEPT !.requests[t] = request]           \* 125-126
    /\ UNCHANGED <<middleware, node>>
    /\ CacheFrame

\* lines 129-132, 142: the second `with self.lock` block
RequestStore(t) ==
    /\ procs.requests[t] # "none"
    /\ middleware.lock = "free"
    /\ middleware' = [middleware EXCEPT
           !.block_cache = Stored(@, middleware.last_block, procs.requests[t])]
    /\ procs' = [procs EXCEPT !.requests[t] = "none"]
    /\ UNCHANGED node
    /\ CacheFrame

\* lines 27-44, on a chain with one block
InitCache ==
    /\ node = [latest |-> 1, new_blocks |-> <<>>]
    /\ middleware = [last_block |-> 1, block_cache |-> <<>>, lock |-> "free"]
    /\ procs = [loop |-> "check", requests |-> [t \in Threads |-> "none"],
                served |-> [response |-> 0, last_block |-> 0]]
    /\ MergeIdle
    /\ AnalyzeIdle
    /\ BuilderIdle
    /\ LinesIdle
    /\ HistoryIdle
    /\ ChainIdle
    /\ LinkIdle

NextCache ==
    \/ NewBlock
    \/ \E idle \in BOOLEAN : LoopIdleCheck(idle)
    \/ LoopQuery
    \/ \E connected \in BOOLEAN : LoopQueryFails(connected)
    \/ LoopTrim
    \/ \E t \in Threads, request \in Requests : RequestLookup(t, request)
    \/ \E t \in Threads : RequestStore(t)

SpecCache == InitCache /\ [][NextCache]_vars

----------------------------------------------------------------------------
\* C30: under any interleaving of block_filter_loop and concurrent
\* process_request calls, whenever the lock is free the block cache holds
\* items for at most 5 blocks, and a response served from the block cache
\* was stored under the hash that is last_block at the moment it is served.
C30_CacheBoundedAndCurrent ==
    DOMAIN middleware # {} =>
        /\ middleware.lock = "free" => Len(middleware.block_cache) <= 5
        /\ procs.served.response = procs.served.last_block
        /\ \A k \in 1 .. Len(middleware.block_cache) :
               \A request \in DOMAIN middleware.block_cache[k].responses :
                   middleware.block_cache[k].responses[request]
                       = middleware.block_cache[k].hash

\* a response was served from a full cache for its newest block
C30_Witness ==
    /\ DOMAIN middleware # {}
    /\ middleware.lock = "free"
    /\ Len(middleware.block_cache) = 5
    /\ middleware.block_cache[1].hash > 2
    /\ procs.served.last_block = middleware.last_block
    /\ procs.served.response = middleware.last_block
    /\ middleware.last_block = middleware.block_cache[5].hash

=============================================================================
